---- MODULE Spec2Model ----
(***************************************************************************)
(* Temporal scheduling subsystem of the Telegram secretary bot:            *)
(*   - RestScheduleService  (apps/telegram_bot/rest.py)                    *)
(*   - TaskTracker          (apps/telegram_bot/tracker.py)                 *)
(*   - ProactivityService   (apps/telegram_bot/proactivity.py)             *)
(*   - UserStateService     (apps/telegram_bot/user_state.py)              *)
(*   - TaskSessionMonitor   (apps/telegram_bot/session_monitor.py)         *)
(*                                                                         *)
(* Time is the UTC instant in whole seconds since the model's epoch.  A    *)
(* timezone-aware datetime is identified with its instant; its persisted   *)
(* ISO-8601 form is the record [iso |-> instant].                          *)
(* An Optional value is the empty tuple (None) or a one-element tuple.     *)
(* A window's created_at and a tracker entry's metadata are written and    *)
(* read back but take part in no decision; the model leaves them out.      *)
(* A threading.Timer is held by the one entry whose timer field refers to  *)
(* it: [due, state], state "started" until it fires ("finished").  Every   *)
(* handler cancels a timer before it drops the reference, and a cancelled  *)
(* timer is never looked at again.  Timers that live outside the registry  *)
(* are in the bag `loose`: the callback of a timer that went off and has   *)
(* not yet taken the tracker's lock ("running"), and a started timer whose *)
(* reference an entry lost without cancelling it ("started").              *)
(* A Python str that the code searches or lower-cases is a tuple of        *)
(* one-character strings.                                                  *)
(***************************************************************************)
EXTENDS Integers, Sequences, FiniteSets, Bags, TLC

VARIABLES
    now,              \* the clock read by every _utcnow()
    data,             \* RestScheduleService._data, in dict (insertion) order
    restDisk,         \* contents of rest_windows.json
    recentCancelled,  \* RestScheduleService._recent_cancelled
    entries,          \* TaskTracker._entries: chat -> entries in dict order
    trackerDisk,      \* contents of the tracker's storage file
    _follow_up_interval,  \* TaskTracker._follow_up_interval
    _user_state,      \* TaskTracker._user_state is attached
    _storage_path,    \* TaskTracker._storage_path is set
    loose,            \* timer threads no entry refers to, or whose callback runs
    _states,          \* UserStateService._states, as saved to its file
    monitor,          \* TaskSessionMonitor: its timers, sessions and lock
    _timers,          \* ProactivityService._timers: chat -> ChatTimers
    begun,            \* ProactivityService callbacks that wait for its lock
    writing,          \* snapshots _persist has taken and not yet written
    last              \* outcome of the last call: result, exception, messages

restVars == <<data, restDisk, recentCancelled>>
trackerVars == <<entries, trackerDisk>>
wiring == <<_follow_up_interval, _user_state, _storage_path>>

\* ---------------------------------------------------------------- bounds
MaxTime == 3
MaxWindowIds == 3
InitialInterval == 2
FollowUp == 1

Chats == {1, 2}
Times == 0..MaxTime
WindowIds == 1..MaxWindowIds

\* ------------------------------------------------------------- utilities
None == <<>>
Some(x) == <<x>>

Min(a, b) == IF a <= b THEN a ELSE b
Max(a, b) == IF a >= b THEN a ELSE b

SetMin(S) == CHOOSE x \in S : \A y \in S : x <= y

Range(s) == {s[i] : i \in 1..Len(s)}

\* The last operation as its caller saw it: the operation and its arguments,
\* the exception it raised ("" when it returned), its return value, the
\* messages it handed to TelegramBotClient.send_message, and in `took` the ids
\* of what it removed on the way.
Returned(op, req, ret, sent) ==
    [op |-> op, req |-> req, raised |-> "", ret |-> ret, sent |-> sent, took |-> {}]

Raised(op, req, exc, sent) ==
    [op |-> op, req |-> req, raised |-> exc, ret |-> None, sent |-> sent, took |-> {}]

Took(outcome, ids) == [outcome EXCEPT !.took = ids]

\* ------------------------------------------------- rest.py: conversions
_dump_dt(value) == [iso |-> value]

_parse_dt(value) == value.iso

\* RestWindow built from a stored payload
_hydrate(payload) ==
    [id |-> payload.id,
     chat_id |-> payload.chat_id,
     start |-> _parse_dt(payload.start),
     end |-> _parse_dt(payload.end),
     status |-> payload.status,
     note |-> payload.note,
     session_type |-> payload.session_type,
     task_id |-> payload.task_id,
     task_name |-> payload.task_name]

_rest_types == {"rest"}

\* ---------------------------------------------- rest.py: _prune_expired
PrunedData(d, t) ==
    SelectSeq(d, LAMBDA payload :
        ~(_parse_dt(payload.end) <= t /\ payload.session_type \in _rest_types))

RecentCancelCutoff == 1800

PrunedRecent(rc, t) ==
    [c \in Chats |->
        IF rc[c] # None /\ rc[c][1] < t - RecentCancelCutoff THEN None ELSE rc[c]]

\* the store as every public method sees it after its leading _prune_expired()
pdata == PrunedData(data, now)
pdisk == IF pdata # data THEN pdata ELSE restDisk
precent == PrunedRecent(recentCancelled, now)

\* state change of a method that only prunes
_prune_expired ==
    /\ data' = pdata
    /\ restDisk' = pdisk
    /\ recentCancelled' = precent

\* --------------------------------------------------- rest.py: list_windows
RECURSIVE InsertByStart(_, _)
InsertByStart(sorted, w) ==
    IF sorted = <<>> THEN <<w>>
    ELSE IF sorted[Len(sorted)].start <= w.start THEN Append(sorted, w)
    ELSE Append(InsertByStart(SubSeq(sorted, 1, Len(sorted) - 1), w),
                sorted[Len(sorted)])

\* list.sort(key=start): stable
RECURSIVE SortByStart(_)
SortByStart(ws) ==
    IF ws = <<>> THEN <<>>
    ELSE InsertByStart(SortByStart(SubSeq(ws, 1, Len(ws) - 1)), ws[Len(ws)])

RECURSIVE MapHydrate(_)
MapHydrate(d) ==
    IF d = <<>> THEN <<>> ELSE <<_hydrate(Head(d))>> \o MapHydrate(Tail(d))

\* list_windows on an already pruned store d at time t
list_windows(d, chat_id, include_past, t) ==
    SortByStart(MapHydrate(SelectSeq(d, LAMBDA payload :
        /\ payload.chat_id = chat_id
        /\ payload.status \notin {"cancelled", "rejected"}
        /\ (include_past \/ _parse_dt(payload.end) >= t))))

\* --------------------------------------------------- rest.py: add_window
overlaps_only(start, end, existing_start, existing_end) ==
    ~(end <= existing_start \/ start >= existing_end)

overlaps_or_touches(start, end, existing_start, existing_end) ==
    LET overlaps == ~(end <= existing_start \/ start >= existing_end)
        touches == end = existing_start \/ start = existing_end
    IN  overlaps \/ touches

RECURSIVE MergeRest(_, _, _, _)
MergeRest(items, chat_id, i, acc) ==
    IF i > Len(items) THEN acc
    ELSE LET payload == items[i]
             existing_start == _parse_dt(payload.start)
             existing_end == _parse_dt(payload.end)
         IN  IF \/ payload.chat_id # chat_id
                \/ payload.status \in {"cancelled", "rejected"}
                \/ payload.session_type # "rest"
             THEN MergeRest(items, chat_id, i + 1, acc)
             ELSE IF overlaps_or_touches(acc.start, acc.end, existing_start, existing_end)
             THEN MergeRest(items, chat_id, i + 1,
                      [start |-> Min(acc.start, existing_start),
                       end |-> Max(acc.end, existing_end),
                       notes |-> IF payload.note # <<>>
                                 THEN Append(acc.notes, payload.note)
                                 ELSE acc.notes,
                       popped |-> acc.popped \cup {payload.id}])
             ELSE MergeRest(items, chat_id, i + 1, acc)

\* dict.fromkeys(notes): first occurrence of each note, in order
RECURSIVE DedupNotes(_)
DedupNotes(notes) ==
    IF notes = <<>> THEN <<>>
    ELSE LET front == DedupNotes(SubSeq(notes, 1, Len(notes) - 1))
             x == notes[Len(notes)]
         IN  IF x \in Range(front) THEN front ELSE Append(front, x)

\* separator.join(notes); a note is the tuple of the parts the separator joins
RECURSIVE JoinNotes(_)
JoinNotes(notes) ==
    IF notes = <<>> THEN <<>> ELSE Head(notes) \o JoinNotes(Tail(notes))

\* uuid4(): an id no stored window has; the least one, so that the choice of
\* names does not multiply the states
FreshIds(d) == {w \in WindowIds : \A i \in 1..Len(d) : d[i].id # w}

uuid4(d) == SetMin(FreshIds(d))

invalid_range_strict(start, end) == end < start

\* the range check that raises ValueError
invalid_range(start, end) == end <= start

add_window(chat_id, start, end, note, status, session_type, task_id, task_name) ==
    LET req == [chat |-> chat_id, start |-> start, end |-> end,
                session_type |-> session_type]
    IN
    IF invalid_range(start, end)
    THEN /\ _prune_expired
         /\ last' = Raised("add_window", req, "ValueError", <<>>)
    ELSE /\ FreshIds(pdata) # {}
         /\ LET notes0 == IF note # <<>> THEN <<note>> ELSE <<>>
                merged == IF session_type = "rest"
                          THEN MergeRest(pdata, chat_id, 1,
                                   [start |-> start, end |-> end,
                                    notes |-> notes0, popped |-> {}])
                          ELSE [start |-> start, end |-> end,
                                notes |-> notes0, popped |-> {}]
                kept == SelectSeq(pdata, LAMBDA p : p.id \notin merged.popped)
                payload == [id |-> uuid4(pdata),
                            chat_id |-> chat_id,
                            start |-> _dump_dt(merged.start),
                            end |-> _dump_dt(merged.end),
                            status |-> status,
                            note |-> JoinNotes(DedupNotes(merged.notes)),
                            session_type |-> session_type,
                            task_id |-> task_id,
                            task_name |-> task_name]
            IN  /\ data' = Append(kept, payload)
                /\ restDisk' = data'
                /\ recentCancelled' = precent
                /\ last' = Took(Returned("add_window", req, Some(payload.id), <<>>),
                                merged.popped)

\* -------------------------------------------------------- rest.py: reads
ListWindows(chat_id, include_past) ==
    /\ _prune_expired
    /\ last' = Returned("list_windows", None, None, <<>>)

\* current_window on an already pruned store d: the first match in dict order
current_window(d, chat_id, when, session_type) ==
    LET hits == SelectSeq(d, LAMBDA payload :
                    /\ payload.chat_id = chat_id
                    /\ payload.status = "approved"
                    /\ payload.session_type = session_type
                    /\ _parse_dt(payload.start) <= when
                    /\ when <= _parse_dt(payload.end))
    IN  IF hits = <<>> THEN None ELSE Some(_hydrate(Head(hits)))

is_resting(d, chat_id, when) == current_window(d, chat_id, when, "rest") # None

has_active_task_block(d, chat_id, when) ==
    current_window(d, chat_id, when, "task") # None

future_ends(d, chat_id, when) ==
    {_parse_dt(payload.end) : payload \in
        {q \in Range(d) : /\ q.chat_id = chat_id
                          /\ q.status = "approved"
                          /\ q.session_type = "rest"
                          /\ _parse_dt(q.end) > when}}

next_resume_time_unknown(d, chat_id, when) == None

next_resume_time(d, chat_id, when) ==
    IF future_ends(d, chat_id, when) # {}
    THEN Some(SetMin(future_ends(d, chat_id, when)))
    ELSE None

\* ------------------------------------- rest.py: cancel_window, delete_window
HasId(d, window_id) == \E i \in 1..Len(d) : d[i].id = window_id

PayloadOf(d, window_id) == d[CHOOSE i \in 1..Len(d) : d[i].id = window_id]

\* get_window on an already pruned store d
get_window(d, window_id) ==
    IF HasId(d, window_id) THEN Some(_hydrate(PayloadOf(d, window_id))) ELSE None

cancel_window(window_id) ==
    /\ IF ~HasId(pdata, window_id)
       THEN /\ _prune_expired
            /\ last' = Returned("cancel_window", None, Some(FALSE), <<>>)
       ELSE LET payload == PayloadOf(pdata, window_id)
                start == _parse_dt(payload.start)
                end == _parse_dt(payload.end)
                active == payload.status = "approved" /\ start <= now /\ now <= end
            IN  /\ data' = SelectSeq(pdata, LAMBDA p : p.id # window_id)
                /\ restDisk' = data'
                /\ recentCancelled' =
                       IF active
                       THEN [precent EXCEPT ![payload.chat_id] = Some(now)]
                       ELSE precent
                /\ last' = Returned("cancel_window", None, Some(TRUE), <<>>)

delete_window(window_id) ==
    /\ IF HasId(pdata, window_id)
       THEN /\ data' = SelectSeq(pdata, LAMBDA p : p.id # window_id)
            /\ restDisk' = data'
            /\ recentCancelled' = precent
            /\ last' = Returned("delete_window", None, Some(TRUE), <<>>)
       ELSE /\ _prune_expired
            /\ last' = Returned("delete_window", None, Some(FALSE), <<>>)

\* ------------------------------------------------- tracker.py: conversions
\* datetime.isoformat() and datetime.fromisoformat()
isoformat(value) == [iso |-> value]

fromisoformat(text) == text.iso

\* str(chat_id), the key of the JSON snapshot, and int(chat_id_str)
str(chat_id) == [str |-> chat_id]

int(chat_id_str) == chat_id_str.str

\* str.lower() over the letters the model's texts are written in
LowerChar(ch) ==
    CASE ch = "A" -> "a"
      [] ch = "B" -> "b"
      [] ch = "R" -> "r"
      [] OTHER -> ch

lower(text) == [i \in 1..Len(text) |-> LowerChar(text[i])]

\* sub in text
Contains(text, sub) ==
    \E i \in 0..(Len(text) - Len(sub)) : SubSeq(text, i + 1, i + Len(sub)) = sub

MD_SPECIAL_CHARS == {"\\", "[", "]"}

RECURSIVE escape_md(_)
escape_md(text) ==
    IF text = <<>> THEN <<>>
    ELSE (IF Head(text) \in MD_SPECIAL_CHARS THEN <<"\\", Head(text)>>
          ELSE <<Head(text)>>) \o escape_md(Tail(text))

\* task_id.replace('-', '')
RemoveDashes(task_id) == SelectSeq(task_id, LAMBDA ch : ch # "-")

\* task.page_url or f"https://www.notion.so/{task.id.replace('-', '')}"
UrlOr(page_url, task_id) ==
    IF page_url # None /\ page_url[1] # <<>> THEN page_url[1]
    ELSE <<"https://www.notion.so/">> \o RemoveDashes(task_id)

\* ----------------------------------------------- tracker.py: the registry
\* threading.Timer(delay, self._send_reminder, ...).start()
_timer_factory_unstarted(delay) == Some([due |-> now + delay, state |-> "finished"])

_timer_factory(delay) == Some([due |-> now + delay, state |-> "started"])

Has(entry_map, task_id) == \E i \in 1..Len(entry_map) : entry_map[i].task_id = task_id

IndexOf(entry_map, task_id) ==
    CHOOSE i \in 1..Len(entry_map) : entry_map[i].task_id = task_id

PopAll(entry_map, task_id) == <<>>

\* entry_map.pop(task_id, None): what is left
Pop(entry_map, task_id) == SelectSeq(entry_map, LAMBDA e : e.task_id # task_id)

\* ------------------------------------ tracker.py: _persist, _load_from_disk
DumpEntry(entry) ==
    [task_id |-> entry.task_id,
     task_name |-> entry.task_name,
     task_url |-> entry.task_url,
     waiting |-> entry.waiting,
     start_time |-> isoformat(entry.start_time),
     interval_seconds |-> entry.interval_seconds,
     context |-> entry.context,
     next_fire_at |-> isoformat(entry.next_fire_at),
     rest_resume_at |-> IF entry.rest_resume_at # None
                        THEN Some(isoformat(entry.rest_resume_at[1]))
                        ELSE None]

Snapshot(es) ==
    [k \in {str(c) : c \in Chats} |->
        [i \in 1..Len(es[int(k)]) |-> DumpEntry(es[int(k)][i])]]

\* the storage file after _persist() of the registry es
_persist(es) == IF _storage_path THEN Snapshot(es) ELSE trackerDisk

LoadEntry(entry_payload) ==
    LET next_fire == fromisoformat(entry_payload.next_fire_at)
        resume_at_raw == entry_payload.rest_resume_at
    IN  [task_id |-> entry_payload.task_id,
         task_name |-> entry_payload.task_name,
         task_url |-> UrlOr(Some(entry_payload.task_url), entry_payload.task_id),
         timer |-> _timer_factory(Max(1, next_fire - now)),
         waiting |-> entry_payload.waiting,
         start_time |-> fromisoformat(entry_payload.start_time),
         interval_seconds |-> entry_payload.interval_seconds,
         context |-> entry_payload.context,
         next_fire_at |-> next_fire,
         rest_resume_at |-> IF resume_at_raw # None
                            THEN Some(fromisoformat(resume_at_raw[1]))
                            ELSE None]

_load_from_disk(disk) ==
    IF ~_storage_path THEN [c \in Chats |-> <<>>]
    ELSE [c \in Chats |->
            [i \in 1..Len(disk[str(c)]) |-> LoadEntry(disk[str(c)][i])]]

\* ------------------------------------------ tracker.py: _sync_action_state
\* update_state() is called with has_task_block, a keyword it does not take:
\* the call raises TypeError whenever it is reached
_sync_action_state_raises(chat_id, action) ==
    /\ _user_state
    /\ ~(action = "advancing" /\ ~has_active_task_block(pdata, chat_id, now))

\* --------------------------------------------- tracker.py: start_tracking
first_delay_when_resume_earlier(interval, resume) ==
    IF resume # None /\ resume[1] < now + interval
    THEN Max(1, resume[1] - now)
    ELSE interval

\* the delay of the first timer; resume is the rest's resume time when the
\* chat is resting
first_delay(interval, resume) ==
    IF resume # None /\ now + interval <= resume[1]
    THEN Max(1, resume[1] - now)
    ELSE interval

\* the interval of the schedule, in seconds
tracking_interval(interval_minutes) ==
    LET custom_interval == IF interval_minutes # None /\ interval_minutes[1] # 0
                           THEN Max(5, interval_minutes[1]) * 60
                           ELSE 0
    IN  IF custom_interval # 0 THEN custom_interval ELSE InitialInterval

\* the TrackerEntry start_tracking registers
started_entry(chat_id, task, interval_minutes, context) ==
    LET interval == tracking_interval(interval_minutes)
        resume == IF is_resting(pdata, chat_id, now)
                  THEN next_resume_time(pdata, chat_id, now)
                  ELSE None
        delay == first_delay(interval, resume)
    IN  [task_id |-> task.id,
         task_name |-> task.name,
         task_url |-> UrlOr(task.page_url, task.id),
         timer |-> _timer_factory(delay),
         waiting |-> FALSE,
         start_time |-> now,
         interval_seconds |-> interval,
         context |-> context,
         next_fire_at |-> now + delay,
         rest_resume_at |-> resume]

start_tracking(chat_id, task, interval_minutes, update_action_state, notify_user, context) ==
    LET req == [chat |-> chat_id, task |-> task.id]
        interval == tracking_interval(interval_minutes)
        entry == started_entry(chat_id, task, interval_minutes, context)
        sent == IF notify_user
                THEN <<[chat_id |-> chat_id, fmt |-> "started",
                        name |-> escape_md(task.name), minutes |-> interval \div 60]>>
                ELSE <<>>
    IN  /\ _prune_expired
        /\ entries' = [entries EXCEPT ![chat_id] = Append(Pop(@, task.id), entry)]
        /\ IF update_action_state /\ _sync_action_state_raises(chat_id, "advancing")
           THEN /\ trackerDisk' = trackerDisk
                /\ last' = Raised("start_tracking", req, "TypeError", sent)
           ELSE /\ trackerDisk' = _persist(entries')
                /\ last' = Returned("start_tracking", req, None, sent)

\* --------------------------------------------- tracker.py: _send_reminder
\* the callback of a timer that has just finished; es is the registry with
\* that timer marked finished
_send_reminder(es, chat_id, task_id) ==
    LET req == [chat |-> chat_id, task |-> task_id]
        entry_map == es[chat_id]
    IN
    IF entry_map = <<>> \/ ~Has(entry_map, task_id)
    THEN /\ entries' = es
         /\ trackerDisk' = trackerDisk
         /\ last' = Returned("_send_reminder", req, None, <<>>)
         /\ UNCHANGED restVars
    ELSE LET i == IndexOf(entry_map, task_id)
             entry == entry_map[i]
         IN
         IF is_resting(pdata, chat_id, now)
         THEN LET resume == next_resume_time(pdata, chat_id, now)
                  delay == IF resume # None THEN resume[1] - now
                           ELSE _follow_up_interval
              IN  /\ _prune_expired
                  /\ entries' = [es EXCEPT ![chat_id][i] =
                         [entry EXCEPT !.timer = _timer_factory(delay),
                                       !.start_time = now,
                                       !.waiting = FALSE,
                                       !.next_fire_at = now + delay,
                                       !.rest_resume_at = resume]]
                  /\ trackerDisk' = trackerDisk
                  /\ last' = Returned("_send_reminder", req, None, <<>>)
         ELSE /\ _prune_expired
              /\ entries' = [es EXCEPT ![chat_id][i] =
                     IF _follow_up_interval > 0
                     THEN [entry EXCEPT !.waiting = TRUE,
                                        !.start_time = now,
                                        !.timer = _timer_factory(_follow_up_interval),
                                        !.next_fire_at = now + _follow_up_interval,
                                        !.rest_resume_at = None]
                     ELSE [entry EXCEPT !.waiting = TRUE,
                                        !.start_time = now,
                                        !.next_fire_at = now]]
              /\ trackerDisk' = _persist(entries')
              /\ last' = Returned("_send_reminder", req, None,
                             <<[chat_id |-> chat_id, fmt |-> "reminder",
                                name |-> escape_md(entry.task_name),
                                url |-> entry.task_url]>>)

\* ---------------------------------------------- tracker.py: consume_reply
waiting_items_all(entry_map) == entry_map

waiting_items(entry_map) == SelectSeq(entry_map, LAMBDA e : e.waiting)

consume_reply(chat_id, user_text) ==
    LET req == [chat |-> chat_id, text |-> user_text]
        entry_map == entries[chat_id]
        waiting == waiting_items(entry_map)
        lowered == lower(user_text)
        hits == SelectSeq(waiting, LAMBDA e :
                    \/ e.task_id # <<>> /\ Contains(user_text, e.task_id)
                    \/ e.task_name # <<>> /\ Contains(lowered, lower(e.task_name)))
        target_task_id == IF Len(waiting) = 1 THEN Some(waiting[1].task_id)
                          ELSE IF hits # <<>> THEN Some(Head(hits).task_id)
                          ELSE None
    IN
    IF entry_map = <<>> \/ waiting = <<>> \/ target_task_id = None
    THEN /\ last' = Returned("consume_reply", req, None, <<>>)
         /\ UNCHANGED <<restVars, trackerVars>>
    ELSE LET entry == entry_map[IndexOf(entry_map, target_task_id[1])]
             left == Pop(entry_map, target_task_id[1])
             has_tracker == left # <<>>
             response == [fmt |-> "feedback", name |-> entry.task_name,
                          text |-> user_text, url |-> entry.task_url]
         IN  /\ entries' = [entries EXCEPT ![chat_id] = left]
             /\ IF ~has_tracker /\ _user_state
                THEN _prune_expired
                ELSE UNCHANGED restVars
             /\ IF ~has_tracker /\ _sync_action_state_raises(chat_id, "unknown")
                THEN /\ trackerDisk' = trackerDisk
                     /\ last' = Raised("consume_reply", req, "TypeError", <<>>)
                ELSE /\ trackerDisk' = _persist(entries')
                     /\ last' = Returned("consume_reply", req, Some(response), <<>>)

\* ------------------------------------------- tracker.py: request_feedback
follow_up_timer_never == None

\* the timer request_feedback gives the new entry
follow_up_timer ==
    IF _follow_up_interval > 0 THEN _timer_factory(_follow_up_interval) ELSE None

\* the waiting TrackerEntry request_feedback registers
feedback_entry(task, context) ==
    [task_id |-> task.id,
     task_name |-> task.name,
     task_url |-> UrlOr(task.page_url, task.id),
     timer |-> follow_up_timer,
     waiting |-> TRUE,
     start_time |-> now,
     interval_seconds |-> _follow_up_interval,
     context |-> context,
     next_fire_at |-> now + _follow_up_interval,
     rest_resume_at |-> None]

request_feedback(chat_id, task, prompt, context) ==
    LET req == [chat |-> chat_id, task |-> task.id]
        entry == feedback_entry(task, context)
    IN  /\ entries' = [entries EXCEPT ![chat_id] = Append(Pop(@, task.id), entry)]
        /\ trackerDisk' = _persist(entries')
        /\ last' = Returned("request_feedback", req, None,
                       <<[chat_id |-> chat_id, fmt |-> "prompt", text |-> prompt]>>)
        /\ UNCHANGED restVars

\* ---------------------------------------------- tracker.py: stop_tracking
stop_target_first(entry_map, task_hint) ==
    IF entry_map # <<>> THEN Some(entry_map[1].task_id) ELSE None

\* the entry stop_tracking settles on, if any
stop_target(entry_map, task_hint) ==
    LET lowered == lower(task_hint[1])
        by_id == SelectSeq(entry_map, LAMBDA e : lower(e.task_id) = lowered)
        by_name == SelectSeq(entry_map, LAMBDA e : Contains(lower(e.task_name), lowered))
    IN  IF task_hint # None /\ task_hint[1] # <<>>
        THEN IF by_id # <<>> THEN Some(Head(by_id).task_id)
             ELSE IF by_name # <<>> THEN Some(Head(by_name).task_id)
             ELSE None
        ELSE IF Len(entry_map) = 1 THEN Some(entry_map[1].task_id)
             ELSE None

stop_tracking(chat_id, task_hint) ==
    LET req == [chat |-> chat_id, hint |-> task_hint]
        entry_map == entries[chat_id]
        target_id == stop_target(entry_map, task_hint)
    IN
    IF entry_map = <<>> \/ target_id = None
    THEN /\ last' = Returned("stop_tracking", req, None, <<>>)
         /\ UNCHANGED <<restVars, trackerVars>>
    ELSE LET left == Pop(entry_map, target_id[1])
             has_tracker == left # <<>>
         IN  /\ entries' = [entries EXCEPT ![chat_id] = left]
             /\ IF ~has_tracker /\ _user_state
                THEN _prune_expired
                ELSE UNCHANGED restVars
             /\ IF ~has_tracker /\ _sync_action_state_raises(chat_id, "unknown")
                THEN /\ trackerDisk' = trackerDisk
                     /\ last' = Raised("stop_tracking", req, "TypeError", <<>>)
                ELSE /\ trackerDisk' = _persist(entries')
                     /\ last' = Returned("stop_tracking", req, target_id, <<>>)

\* ------------------------------------------------------ tracker.py: clear
clear(chat_id) ==
    LET req == [chat |-> chat_id]
    IN
    IF entries[chat_id] = <<>>
    THEN /\ last' = Returned("clear", req, None, <<>>)
         /\ UNCHANGED <<restVars, trackerVars>>
    ELSE /\ entries' = [entries EXCEPT ![chat_id] = <<>>]
         /\ IF _user_state THEN _prune_expired ELSE UNCHANGED restVars
         /\ IF _sync_action_state_raises(chat_id, "unknown")
            THEN /\ trackerDisk' = trackerDisk
                 /\ last' = Raised("clear", req, "TypeError", <<>>)
            ELSE /\ trackerDisk' = _persist(entries')
                 /\ last' = Returned("clear", req, None, <<>>)

\* --------------------------------------------- tracker.py: defer_for_rest
\* one pass of the loop over the chat's entries
DeferEntry(entry, end) ==
    IF entry.timer = None THEN entry
    ELSE IF entry.next_fire_at > end THEN [entry EXCEPT !.rest_resume_at = None]
    ELSE [entry EXCEPT !.timer = _timer_factory(Max(1, end - now)),
                       !.waiting = FALSE,
                       !.start_time = now,
                       !.next_fire_at = now + Max(1, end - now),
                       !.rest_resume_at = Some(end)]

defer_for_rest(chat_id, start, end) ==
    LET req == [chat |-> chat_id, start |-> start, end |-> end]
        entry_map == entries[chat_id]
        changed == \E i \in 1..Len(entry_map) :
                      entry_map[i].timer # None /\ entry_map[i].next_fire_at <= end
    IN
    IF entry_map = <<>> \/ ~(start <= now /\ now < end)
    THEN /\ last' = Returned("defer_for_rest", req, None, <<>>)
         /\ UNCHANGED <<restVars, trackerVars>>
    ELSE /\ entries' = [entries EXCEPT ![chat_id] =
                [i \in 1..Len(entry_map) |-> DeferEntry(entry_map[i], end)]]
         /\ trackerDisk' = IF changed THEN _persist(entries') ELSE trackerDisk
         /\ last' = Returned("defer_for_rest", req, None, <<>>)
         /\ UNCHANGED restVars

\* ------------------------------------------------ tracker.py: list_active
RECURSIVE InsertByStartTime(_, _)
InsertByStartTime(sorted, e) ==
    IF sorted = <<>> THEN <<e>>
    ELSE IF sorted[Len(sorted)].start_time <= e.start_time THEN Append(sorted, e)
    ELSE Append(InsertByStartTime(SubSeq(sorted, 1, Len(sorted) - 1), e),
                sorted[Len(sorted)])

RECURSIVE SortByStartTime(_)
SortByStartTime(es) ==
    IF es = <<>> THEN <<>>
    ELSE InsertByStartTime(SortByStartTime(SubSeq(es, 1, Len(es) - 1)), es[Len(es)])

list_active(es, chat_id) == SortByStartTime(es[chat_id])

\* ------------------------------------------------------ a timer goes off
FinishTimer(es, chat_id, i) ==
    [es EXCEPT ![chat_id][i].timer = Some([@[1] EXCEPT !.state = "finished"])]

Started(entry) == entry.timer # None /\ entry.timer[1].state = "started"

Overdue(entry) == Started(entry) /\ entry.timer[1].due <= now

\* -------------------------------------------------- the process restarts
\* bot.py build_runtime(): a new RestScheduleService reads rest_windows.json,
\* a new TaskTracker reads its storage file; every timer of the old process is
\* gone with it
build_runtime ==
    /\ data' = restDisk
    /\ restDisk' = restDisk
    /\ recentCancelled' = [c \in Chats |-> None]
    /\ entries' = _load_from_disk(trackerDisk)
    /\ trackerDisk' = trackerDisk
    /\ last' = Returned("build_runtime", None, None, <<>>)

\* -------------------------------------- proactivity.py: the due time
\* max(300, state_stale_seconds) and max(300, state_prompt_cooldown_seconds)
\* of a service built with the least values
_state_stale_seconds == 300

_state_prompt_cooldown == 300

\* timedelta(minutes=2) after a rest window was cancelled
RecentCancelGrace == 120

_adjust_due_for_rest(chat_id, due, t) ==
    LET active_now == current_window(pdata, chat_id, t, "rest")
        window_at_due == current_window(pdata, chat_id, due, "rest")
        recent_cancel == precent[chat_id]
    IN  IF active_now # None /\ t <= active_now[1].end
        THEN active_now[1].end
        ELSE IF window_at_due # None /\ window_at_due[1].end > due
        THEN window_at_due[1].end
        ELSE IF recent_cancel # None /\ recent_cancel[1] + RecentCancelGrace > t
        THEN recent_cancel[1] + RecentCancelGrace
        ELSE due

_state_due(chat_id, value, updated_at, prompted_at, t) ==
    LET threshold == IF updated_at # None
                     THEN updated_at[1] + _state_stale_seconds
                     ELSE t
        adjusted == _adjust_due_for_rest(chat_id, threshold, t)
        cooldown_due == prompted_at[1] + _state_prompt_cooldown
        cooled == IF prompted_at # None /\ adjusted < cooldown_due
                  THEN cooldown_due
                  ELSE adjusted
        pending == value = "unknown" \/ updated_at = None \/ t >= threshold
    IN  [pending |-> pending,
         due |-> IF pending /\ cooled < t THEN t ELSE cooled]

\* _state_due applied to one dimension of a chat's state, as describe_next_prompts
\* and _handle_state_check apply it after reading (and pruning) the rest service
state_due_of(chat_id, value, updated_at, prompted_at) ==
    /\ _prune_expired
    /\ last' = Returned("_state_due",
                   [chat |-> chat_id, value |-> value,
                    updated_at |-> updated_at, prompted_at |-> prompted_at],
                   Some(_state_due(chat_id, value, updated_at, prompted_at, now)),
                   <<>>)

\* ------------------------------------------------------ user_state.py
\* "休息中" is written "resting" here, "推进中" is written "advancing"
\* UserStateService._dump_dt and _parse_dt
UserState_dump_dt(value) == IF value # None THEN Some(isoformat(value[1])) ELSE None

UserState_parse_dt(value) == IF value = None THEN None ELSE Some(fromisoformat(value[1]))

\* UserState(): the state of a chat the service knows nothing of
UserState ==
    [action |-> "unknown", mental |-> "unknown",
     action_updated_at |-> None, mental_updated_at |-> None,
     action_prompted_at |-> None, mental_prompted_at |-> None]

\* the dict _persist stores for a state, and the state get_state reads back
DumpState(state) ==
    [action |-> state.action,
     mental |-> state.mental,
     action_updated_at |-> UserState_dump_dt(state.action_updated_at),
     mental_updated_at |-> UserState_dump_dt(state.mental_updated_at),
     action_prompted_at |-> UserState_dump_dt(state.action_prompted_at),
     mental_prompted_at |-> UserState_dump_dt(state.mental_prompted_at)]

LoadState(raw) ==
    IF raw = None THEN UserState
    ELSE [action |-> raw[1].action,
          mental |-> raw[1].mental,
          action_updated_at |-> UserState_parse_dt(raw[1].action_updated_at),
          mental_updated_at |-> UserState_parse_dt(raw[1].mental_updated_at),
          action_prompted_at |-> UserState_parse_dt(raw[1].action_prompted_at),
          mental_prompted_at |-> UserState_parse_dt(raw[1].mental_prompted_at)]

\* the truth value of an Optional[bool]
Truthy(flag) == flag # None /\ flag[1]

_normalize_action_keeps(state, has_active_tracker, is_resting_flag) == state

\* the state _normalize_action returns; it saves the state when it differs
_normalize_action(state, has_active_tracker, is_resting_flag) ==
    IF Truthy(is_resting_flag)
    THEN IF state.action # "resting"
         THEN [state EXCEPT !.action = "resting",
                            !.action_updated_at = Some(now),
                            !.action_prompted_at = None]
         ELSE state
    ELSE IF state.action = "resting"
    THEN IF Truthy(has_active_tracker)
         THEN [state EXCEPT !.action = "advancing",
                            !.action_updated_at = Some(now),
                            !.action_prompted_at = None]
         ELSE [state EXCEPT !.action = "unknown",
                            !.action_updated_at = Some(now),
                            !.action_prompted_at = None]
    ELSE IF state.action = "advancing" /\ ~Truthy(has_active_tracker)
    THEN [state EXCEPT !.action = "unknown",
                       !.action_updated_at = None,
                       !.action_prompted_at = None]
    ELSE IF Truthy(has_active_tracker) /\ state.action = "unknown"
    THEN [state EXCEPT !.action = "advancing",
                       !.action_updated_at = Some(now),
                       !.action_prompted_at = None]
    ELSE state

\* the state get_state returns
ReadState(chat_id, has_active_tracker, is_resting_flag) ==
    IF has_active_tracker # None \/ is_resting_flag # None
    THEN _normalize_action(LoadState(_states[chat_id]), has_active_tracker, is_resting_flag)
    ELSE LoadState(_states[chat_id])

get_state(chat_id, has_active_tracker, is_resting_flag) ==
    LET state == ReadState(chat_id, has_active_tracker, is_resting_flag)
    IN  /\ _states' = IF state # LoadState(_states[chat_id])
                      THEN [_states EXCEPT ![chat_id] = Some(DumpState(state))]
                      ELSE _states
        /\ last' = Returned("get_state",
                       [chat |-> chat_id, has_active_tracker |-> has_active_tracker,
                        is_resting |-> is_resting_flag],
                       Some(state), <<>>)

update_state(chat_id, action, mental, has_active_tracker, is_resting_flag) ==
    LET read == ReadState(chat_id, has_active_tracker, is_resting_flag)
        acted == IF action # None /\ action[1] # ""
                 THEN [read EXCEPT !.action = IF Truthy(is_resting_flag) THEN "resting"
                                              ELSE action[1],
                                   !.action_updated_at = Some(now),
                                   !.action_prompted_at = None]
                 ELSE read
        felt == IF mental # None /\ mental[1] # ""
                THEN [acted EXCEPT !.mental = mental[1],
                                   !.mental_updated_at = Some(now),
                                   !.mental_prompted_at = None]
                ELSE acted
        state == IF has_active_tracker # None \/ is_resting_flag # None
                 THEN _normalize_action(felt, has_active_tracker, is_resting_flag)
                 ELSE felt
        saved == \/ read # LoadState(_states[chat_id])
                 \/ (action # None /\ action[1] # "")
                 \/ (mental # None /\ mental[1] # "")
                 \/ state # felt
    IN  /\ _states' = IF saved
                      THEN [_states EXCEPT ![chat_id] = Some(DumpState(state))]
                      ELSE _states
        /\ last' = Returned("update_state",
                       [chat |-> chat_id, action |-> action, mental |-> mental,
                        has_active_tracker |-> has_active_tracker,
                        is_resting |-> is_resting_flag],
                       Some(state), <<>>)

\* ------------------------------------------- session_monitor.py: its state
\* TaskSessionMonitor.__init__: no timers, no sessions, the lock free.  A timer
\* is [due, state] as in the tracker; the tracker and the task repository are
\* attached, as bot.py attaches them.  running: the timer threads that have
\* called get_window and not gone further, each with the window it was given
TaskSessionMonitor ==
    [_start_timers |-> [w \in WindowIds |-> None],
     _end_timers |-> [w \in WindowIds |-> None],
     _active_sessions |-> [w \in WindowIds |-> None],
     _lock |-> "free",
     running |-> {}]

\* a started timer whose time has come
Due(timer) == timer # None /\ timer[1].state = "started" /\ timer[1].due <= now

\* ------------------------------------------------------------ the clock
\* time passes; a started timer goes off when it is due, not later
Tick ==
    /\ now < MaxTime
    /\ \A c \in Chats : \A i \in 1..Len(entries[c]) : ~Overdue(entries[c][i])
    /\ \A t \in BagToSet(loose) : t.state = "started" /\ t.due > now
    /\ \A w \in WindowIds :
           ~Due(monitor._start_timers[w]) /\ ~Due(monitor._end_timers[w])
    /\ \A c \in Chats :
           _timers[c] # None =>
               /\ ~Due(_timers[c][1].state_timer)
               /\ _timers[c][1].pending_question # None =>
                      ~Due(_timers[c][1].pending_question[1].timer)
    /\ monitor.running = {}
    /\ begun = EmptyBag
    /\ writing = EmptyBag
    /\ now' = now + 1
    /\ last' = Returned("tick", None, None, <<>>)
    /\ UNCHANGED <<restVars, trackerVars, wiring, loose, _states, monitor, _timers, begun, writing>>

\* ------------------------------------------- environment: the interval store
Notes == {<<>>, <<"nap">>}
Statuses == {"approved", "pending"}

\* add_window calls of the command layer: chat 1 asks for every range, chat 2
\* is the bystander whose windows must stay as they are
RestRequests ==
    {[chat |-> 1, start |-> se[1], end |-> se[2], note |-> <<>>, status |-> "approved"] :
        se \in {x \in Times \X Times : x[1] < x[2]}}
    \cup {[chat |-> 1, start |-> 1, end |-> 1, note |-> <<>>, status |-> "approved"],
          [chat |-> 1, start |-> 2, end |-> 1, note |-> <<>>, status |-> "approved"],
          [chat |-> 1, start |-> 1, end |-> 2, note |-> <<"nap">>, status |-> "pending"],
          [chat |-> 2, start |-> 1, end |-> 2, note |-> <<"nap">>, status |-> "approved"]}

TaskRequests == {[chat |-> 1, start |-> 0, end |-> 2]}

AddRest ==
    \E r \in RestRequests :
        /\ add_window(r.chat, r.start, r.end, r.note, r.status, "rest", None, None)
        /\ UNCHANGED <<now, trackerVars, wiring, loose, _states, monitor, _timers, begun, writing>>

AddTask ==
    \E r \in TaskRequests :
        /\ add_window(r.chat, r.start, r.end, <<>>, "approved", "task",
                      None, Some(<<"R">>))
        /\ UNCHANGED <<now, trackerVars, wiring, loose, _states, monitor, _timers, begun, writing>>

List ==
    \E c \in Chats, p \in BOOLEAN :
        /\ ListWindows(c, p)
        /\ UNCHANGED <<now, trackerVars, wiring, loose, _states, monitor, _timers, begun, writing>>

Cancel ==
    \E w \in WindowIds : cancel_window(w) /\ UNCHANGED <<now, trackerVars, wiring, loose, _states, monitor, _timers, begun, writing>>

Delete ==
    \E w \in WindowIds : delete_window(w) /\ UNCHANGED <<now, trackerVars, wiring, loose, _states, monitor, _timers, begun, writing>>

\* ---------------------------------------------- environment: the registry
TaskA == [id |-> <<"a", "-", "1">>, name |-> <<"R", "[">>, page_url |-> None]
\* task B's name holds task A's id
TaskB == [id |-> <<"b", "2">>, name |-> <<"r", "a", "-", "1">>, page_url |-> Some(<<"u">>)]

\* the chat that uses the tracker
TrackedChats == {1}

\* it tracks both tasks at the configured interval
TrackRequests ==
    {[chat |-> 1, task |-> TaskA, interval_minutes |-> None, notify_user |-> TRUE],
     [chat |-> 1, task |-> TaskB, interval_minutes |-> None, notify_user |-> TRUE]}

\* replies: one that names nothing, one that holds task B's id, and one that
\* holds task A's name in lower case before task B's id
Texts == {<<"o", "k">>, <<"b", "2">>, <<"r", "[", "b", "2">>}

\* no hint, the empty hint, task B's id in capitals, a letter both names hold,
\* and task A's id, which task B's name holds too
Hints == {None, Some(<<>>), Some(<<"B", "2">>), Some(<<"r">>), Some(<<"a", "-", "1">>)}

\* the rest window chat 1 gets approved while it is tracked
ProposedRests == {[start |-> 1, end |-> 3]}

StartTracking ==
    \E r \in TrackRequests, update_action_state \in BOOLEAN :
        /\ start_tracking(r.chat, r.task, r.interval_minutes, update_action_state,
                          r.notify_user, "task")
        /\ UNCHANGED <<now, wiring, loose, _states, monitor, _timers, begun, writing>>

TimerFire ==
    \E c \in Chats : \E i \in 1..Len(entries[c]) :
        /\ Overdue(entries[c][i])
        /\ _send_reminder(FinishTimer(entries, c, i), c, entries[c][i].task_id)
        /\ UNCHANGED <<now, wiring, loose, _states, monitor, _timers, begun, writing>>

ConsumeReply ==
    \E c \in TrackedChats, user_text \in Texts :
        consume_reply(c, user_text) /\ UNCHANGED <<now, wiring, loose, _states, monitor, _timers, begun, writing>>

RequestFeedback ==
    /\ \E c \in TrackedChats : request_feedback(c, TaskA, <<"p">>, "follow_up")
    /\ UNCHANGED <<now, wiring, loose, _states, monitor, _timers, begun, writing>>

StopTracking ==
    \E c \in TrackedChats, task_hint \in Hints :
        stop_tracking(c, task_hint) /\ UNCHANGED <<now, wiring, loose, _states, monitor, _timers, begun, writing>>

Clear == \E c \in TrackedChats : clear(c) /\ UNCHANGED <<now, wiring, loose, _states, monitor, _timers, begun, writing>>

DeferForRest ==
    \E c \in TrackedChats, r \in ProposedRests :
        defer_for_rest(c, r.start, r.end) /\ UNCHANGED <<now, wiring, loose, _states, monitor, _timers, begun, writing>>

\* the store of the process that restarts holds rest windows only, for which
\* the new monitor's _bootstrap schedules nothing; the new scheduler has no
\* timers
Restart ==
    /\ build_runtime
    /\ loose' = EmptyBag
    /\ monitor' = TaskSessionMonitor
    /\ _timers' = [c \in Chats |-> None]
    /\ begun' = EmptyBag
    /\ writing' = EmptyBag
    /\ UNCHANGED <<now, wiring, _states>>

Propose ==
    \E r \in ProposedRests :
        /\ add_window(1, r.start, r.end, <<>>, "approved", "rest", None, None)
        /\ UNCHANGED <<now, trackerVars, wiring, loose, _states, monitor, _timers, begun, writing>>

\* ------------------------------------- timer threads and the tracker's lock
\* threading.Timer.run(): the wait is over and the timer was not cancelled, so
\* the thread calls _send_reminder, which blocks on the tracker's lock; a
\* cancel() from now on does not stop it
Callback(chat_id, task_id, due) ==
    [chat |-> chat_id, task |-> task_id, due |-> due, state |-> "running"]

\* the one pair (chat 1, task A) is tracked again and again
StartTrackingAgain ==
    \E update_action_state \in BOOLEAN :
        /\ start_tracking(1, TaskA, None, update_action_state, TRUE, "task")
        /\ UNCHANGED <<now, wiring, loose, _states, monitor, _timers, begun, writing>>

\* the timer of an entry goes off
TimerBegin ==
    \E c \in Chats : \E i \in 1..Len(entries[c]) :
        /\ Overdue(entries[c][i])
        /\ entries' = FinishTimer(entries, c, i)
        /\ loose' = loose (+) SetToBag({Callback(c, entries[c][i].task_id,
                                                 entries[c][i].timer[1].due)})
        /\ last' = Returned("Timer.run", [chat |-> c, task |-> entries[c][i].task_id],
                        None, <<>>)
        /\ UNCHANGED <<now, restVars, trackerDisk, wiring, _states, monitor, _timers, begun, writing>>

\* a started timer that no entry refers to goes off ("popped": clear() holds
\* it and has not cancelled it yet)
LooseBegin ==
    \E t \in BagToSet(loose) :
        /\ t.state \in {"started", "popped"}
        /\ t.due <= now
        /\ loose' = (loose (-) SetToBag({t}))
                        (+) SetToBag({Callback(t.chat, t.task, t.due)})
        /\ last' = Returned("Timer.run", [chat |-> t.chat, task |-> t.task], None, <<>>)
        /\ UNCHANGED <<now, restVars, trackerVars, wiring, _states, monitor, _timers, begun, writing>>

Overwritten_always(chat_id, task_id) ==
    SetToBag({[chat |-> chat_id, task |-> task_id, due |-> now, state |-> "started"]})

\* the timer that _send_reminder overwrites in entry.timer without cancelling
\* it: still started when the entry was re-armed while the callback waited
Overwritten(chat_id, task_id) ==
    LET entry_map == entries[chat_id]
        entry == entry_map[IndexOf(entry_map, task_id)]
    IN  IF /\ Has(entry_map, task_id)
           /\ Started(entry)
           /\ (is_resting(pdata, chat_id, now) \/ _follow_up_interval > 0)
        THEN SetToBag({[chat |-> chat_id, task |-> task_id,
                        due |-> entry.timer[1].due, state |-> "started"]})
        ELSE EmptyBag

\* the callback takes the lock and runs
TimerBody ==
    \E t \in BagToSet(loose) :
        /\ t.state = "running"
        /\ _send_reminder(entries, t.chat, t.task)
        /\ loose' = (loose (-) SetToBag({t})) (+) Overwritten(t.chat, t.task)
        /\ UNCHANGED <<now, wiring, _states, monitor, _timers, begun, writing>>

\* ------------------------------------------ environment: the due times
\* a dimension of the chat's state as get_state may return it: never updated,
\* or updated 300 s, 298 s or 296 s before the epoch; never prompted, or
\* prompted then
StateValues == {"unknown", "busy"}

PastTimes == {None, Some(0 - 300), Some(0 - 298), Some(0 - 296)}

StateDue ==
    \E value \in StateValues, updated_at \in PastTimes, prompted_at \in PastTimes :
        /\ state_due_of(1, value, updated_at, prompted_at)
        /\ UNCHANGED <<now, trackerVars, wiring, loose, _states, monitor, _timers, begun, writing>>

\* ---------------------------------------------- environment: the user state
\* the flags a caller passes, or leaves out
Flags == {None, Some(TRUE), Some(FALSE)}

\* what the user is said to be doing and feeling
Actions == {None, Some("advancing"), Some("busy")}

Mentals == {None, Some("calm")}

GetState ==
    \E has_active_tracker \in Flags, is_resting_flag \in Flags :
        /\ get_state(1, has_active_tracker, is_resting_flag)
        /\ UNCHANGED <<now, restVars, trackerVars, wiring, loose, monitor, _timers, begun, writing>>

UpdateState ==
    \E action \in Actions, mental \in Mentals,
       has_active_tracker \in Flags, is_resting_flag \in Flags :
        /\ update_state(1, action, mental, has_active_tracker, is_resting_flag)
        /\ UNCHANGED <<now, restVars, trackerVars, wiring, loose, monitor, _timers, begun, writing>>

\* ------------------------------------- session_monitor.py: _resolve_task
\* the tasks in the repository's primary cache, in dict order
Tasks == <<TaskA, TaskB>>

get_task(task_id) ==
    LET hits == SelectSeq(Tasks, LAMBDA task : task.id = task_id)
    IN  IF hits # <<>> THEN Some(Head(hits)) ELSE None

find_by_name(name) ==
    LET lowered == lower(name)
        exact == SelectSeq(Tasks, LAMBDA task : lower(task.name) = lowered)
        contains == SelectSeq(Tasks, LAMBDA task : Contains(lower(task.name), lowered))
    IN  IF name = <<>> THEN None
        ELSE IF exact # <<>> THEN Some(Head(exact))
        ELSE IF contains # <<>> THEN Some(Head(contains))
        ELSE None

\* the custom task made for a name no task has; its id stands for str(uuid4())
create_custom_task(name) == [id |-> <<"c", "-", "1">>, name |-> name, page_url |-> None]

ensure_task(name) ==
    IF find_by_name(name) # None THEN find_by_name(name)[1] ELSE create_custom_task(name)

\* the truth value of an Optional[str]
Filled(text) == text # None /\ text[1] # <<>>

_resolve_task(window) ==
    LET by_id == IF Filled(window.task_id) THEN get_task(window.task_id[1]) ELSE None
        task == IF by_id = None /\ Filled(window.task_name)
                THEN find_by_name(window.task_name[1])
                ELSE by_id
        inferred == IF Filled(window.task_name) THEN window.task_name[1]
                    ELSE IF window.note # <<>> THEN window.note
                    ELSE <<"b", "l", "o", "c", "k">>
    IN  IF task # None THEN task[1] ELSE ensure_task(inferred)

\* ------------------------------------------ session_monitor.py: handlers
\* the monitor m after _cancel_locked(window_id)
_cancel_locked(m, window_id) ==
    [m EXCEPT !._start_timers[window_id] = None, !._end_timers[window_id] = None]

\* `with self._lock:` around _cancel_locked, by a thread that may hold the lock
\* already (holding) or find it held for good: threading.Lock is not
\* re-entrant, the thread stops there and the lock stays held
locked_cancel(m, window_id, holding) ==
    IF holding \/ m._lock = "held"
    THEN [m EXCEPT !._lock = "held"]
    ELSE _cancel_locked(m, window_id)

\* the outcome of a call that ends with locked_cancel: "blocked" stands for a
\* thread that never returns
Ended(m, op, req, holding, sent) ==
    IF holding \/ m._lock = "held"
    THEN Raised(op, req, "blocked", sent)
    ELSE Returned(op, req, None, sent)

\* whether the thread that calls send_message holds the monitor's lock
lock_of(holding) == IF holding THEN "held" ELSE "free"

\* _notify's message, with whether its sender holds the monitor's lock
block_ended(window, holding) ==
    [chat_id |-> window.chat_id, fmt |-> "block_ended", lock |-> lock_of(holding),
     label |-> IF Filled(window.task_name) THEN window.task_name[1]
               ELSE IF window.note # <<>> THEN window.note
               ELSE <<"u", "n", "n", "a", "m", "e", "d">>]

\* _start_session on the monitor m, for the caller op; holding: the caller is
\* schedule, which holds the lock
_start_session(m, window, silent, op, req, holding) ==
    LET task == _resolve_task(window)
        sent == IF silent THEN <<>>
                ELSE <<[chat_id |-> window.chat_id, fmt |-> "block_started",
                        lock |-> lock_of(holding), name |-> task.name]>>
    IN  /\ monitor' = [m EXCEPT !._active_sessions[window.id] =
                          Some([chat_id |-> window.chat_id,
                                task_name |-> task.name,
                                task |-> task])]
        /\ _prune_expired
        /\ entries' = [entries EXCEPT ![window.chat_id] =
               Append(Pop(@, task.id), started_entry(window.chat_id, task, None, "task"))]
        /\ trackerDisk' = _persist(entries')
        /\ last' = Returned(op, req, None, sent)

\* _handle_end on the monitor m, for the caller op; holding: the caller is
\* schedule, which holds the lock.  With an active session the call of
\* stop_tracking(chat_id, ensure_name=...) raises TypeError: stop_tracking
\* takes no such keyword.  found: what get_window(window_id) returned to the
\* thread
_end_window(m, window_id, found, op, req, holding) ==
    IF found = None
    THEN /\ _prune_expired
         /\ monitor' = locked_cancel(m, window_id, holding)
         /\ last' = Ended(m, op, req, holding, <<>>)
         /\ UNCHANGED trackerVars
    ELSE LET window == found[1]
             active == m._active_sessions[window_id]
             popped == [m EXCEPT !._active_sessions[window_id] = None]
         IN  IF active # None
             THEN /\ _prune_expired
                  /\ monitor' = popped
                  /\ last' = Raised(op, req, "TypeError", <<>>)
                  /\ UNCHANGED trackerVars
             ELSE LET follow_up_task == _resolve_task(window)
                      prompt == [fmt |-> "block_follow_up", name |-> follow_up_task.name]
                      sent == <<block_ended(window, holding),
                                [chat_id |-> window.chat_id, fmt |-> "prompt",
                                 text |-> prompt]>>
                  IN  /\ entries' = [entries EXCEPT ![window.chat_id] =
                             Append(Pop(@, follow_up_task.id),
                                    feedback_entry(follow_up_task, "block_follow_up"))]
                      /\ trackerDisk' = _persist(entries')
                      /\ data' = SelectSeq(pdata, LAMBDA p : p.id # window_id)
                      /\ restDisk' = data'
                      /\ recentCancelled' = precent
                      /\ monitor' = locked_cancel(popped, window_id, holding)
                      /\ last' = Ended(m, op, req, holding, sent)

_handle_end(m, window_id, op, req, holding) ==
    _end_window(m, window_id, get_window(pdata, window_id), op, req, holding)

\* _handle_start after get_window(window_id) has returned found
_start_window(m, window_id, found) ==
    LET req == [window |-> window_id]
    IN  IF found = None
        THEN /\ _prune_expired
             /\ monitor' = locked_cancel(m, window_id, FALSE)
             /\ last' = Ended(m, "_handle_start", req, FALSE, <<>>)
             /\ UNCHANGED trackerVars
        ELSE _start_session(m, found[1], FALSE, "_handle_start", req, FALSE)

_handle_start(m, window_id) ==
    _start_window(m, window_id, get_window(pdata, window_id))

schedule(window, silent_start) ==
    LET req == [window |-> window.id]
        cleared == [_cancel_locked(monitor, window.id) EXCEPT
                        !._active_sessions[window.id] = None]
        start_delay == Max(1, window.start - now)
        end_delay == Max(1, window.end - now)
        ending == [cleared EXCEPT !._end_timers[window.id] = _timer_factory(end_delay)]
    IN  IF window.session_type # "task"
        THEN /\ last' = Returned("schedule", req, None, <<>>)
             /\ UNCHANGED <<restVars, trackerVars, monitor>>
        ELSE IF monitor._lock = "held"
        THEN /\ last' = Raised("schedule", req, "blocked", <<>>)
             /\ UNCHANGED <<restVars, trackerVars, monitor>>
        ELSE IF window.end <= now
        THEN _handle_end(cleared, window.id, "schedule", req, TRUE)
        ELSE IF window.start <= now
        THEN _start_session(ending, window, silent_start, "schedule", req, TRUE)
        ELSE /\ monitor' = [ending EXCEPT !._start_timers[window.id] =
                               _timer_factory(start_delay)]
             /\ last' = Returned("schedule", req, None, <<>>)
             /\ UNCHANGED <<restVars, trackerVars>>

\* cancel(window_id, window); with an active session the call of
\* stop_tracking(chat_id, ensure_name=...) raises TypeError
cancel(window_id, window) ==
    LET req == [window |-> window_id]
        active == monitor._active_sessions[window_id]
    IN  /\ IF window = None THEN _prune_expired ELSE UNCHANGED restVars
        /\ UNCHANGED trackerVars
        /\ IF monitor._lock = "held"
           THEN /\ last' = Raised("cancel", req, "blocked", <<>>)
                /\ UNCHANGED monitor
           ELSE /\ monitor' = [_cancel_locked(monitor, window_id) EXCEPT
                                   !._active_sessions[window_id] = None]
                /\ last' = IF active # None
                           THEN Raised("cancel", req, "TypeError", <<>>)
                           ELSE Returned("cancel", req, None, <<>>)

\* ------------------------------------------ environment: the task blocks
\* the task blocks chat 1 has approved: for task A by its id, for task B by a
\* part of its name
BlockRequests ==
    {[start |-> 0, end |-> 2, task_id |-> Some(TaskA.id), task_name |-> Some(TaskA.name)],
     [start |-> 1, end |-> 2, task_id |-> None, task_name |-> Some(<<"A", "-">>)]}

\* the monitor holds nothing under the id: uuid4() never repeats an id
Unknown(m, window_id) ==
    /\ m._start_timers[window_id] = None
    /\ m._end_timers[window_id] = None
    /\ m._active_sessions[window_id] = None
    /\ \A t \in m.running : t.window_id # window_id

\* the chat asks for a block when it has none
AddBlock ==
    \E r \in BlockRequests :
        /\ \A i \in 1..Len(data) : data[i].session_type # "task"
        /\ FreshIds(pdata) # {}
        /\ Unknown(monitor, uuid4(pdata))
        /\ add_window(1, r.start, r.end, <<>>, "approved", "task", r.task_id, r.task_name)
        /\ UNCHANGED <<now, trackerVars, wiring, loose, _states, monitor, _timers, begun, writing>>

\* schedule(window) for a stored window, as the propose tool and _bootstrap
\* call it
Schedule ==
    \E i \in 1..Len(data), silent_start \in BOOLEAN :
        /\ schedule(_hydrate(data[i]), silent_start)
        /\ UNCHANGED <<now, wiring, loose, _states, _timers, begun, writing>>

\* cancel(window_id, window=window) with the window the caller read, if any
CancelSession ==
    \E w \in WindowIds :
        /\ cancel(w, IF HasId(data, w) THEN Some(_hydrate(PayloadOf(data, w))) ELSE None)
        /\ UNCHANGED <<now, wiring, loose, _states, _timers, begun, writing>>

FinishStart(m, w) ==
    [m EXCEPT !._start_timers[w] = Some([@[1] EXCEPT !.state = "finished"])]

FinishEnd(m, w) ==
    [m EXCEPT !._end_timers[w] = Some([@[1] EXCEPT !.state = "finished"])]

StartTimerFire ==
    \E w \in WindowIds :
        /\ Due(monitor._start_timers[w])
        /\ _handle_start(FinishStart(monitor, w), w)
        /\ UNCHANGED <<now, wiring, loose, _states, _timers, begun, writing>>

EndTimerFire ==
    \E w \in WindowIds :
        /\ Due(monitor._end_timers[w])
        /\ _handle_end(FinishEnd(monitor, w), w, "_handle_end", [window |-> w], FALSE)
        /\ UNCHANGED <<now, wiring, loose, _states, _timers, begun, writing>>

\* ------------------------------------------------ user_state.py: mark_prompt
mark_prompt_both(state, action, mental) ==
    [state EXCEPT !.action_prompted_at = Some(now), !.mental_prompted_at = Some(now)]

\* the state mark_prompt saves for the state it read
mark_prompt(state, action, mental) ==
    [state EXCEPT !.action_prompted_at = IF action THEN Some(now) ELSE @,
                  !.mental_prompted_at = IF mental THEN Some(now) ELSE @]

\* _states after get_state returned state for the chat
SavedState(chat_id, state) ==
    IF state # LoadState(_states[chat_id])
    THEN [_states EXCEPT ![chat_id] = Some(DumpState(state))]
    ELSE _states

\* ------------------------------------------- proactivity.py: the scheduler
\* max(60, state_check_seconds) and max(60, follow_up_seconds) of a service
\* built with the least values; the event handler is set, as the command router
\* sets it, and the tracker is attached
_state_check_seconds == 60

_follow_up_seconds == 60

\* the events handed to the event handler are recorded like sent messages
STATE_EVENT == "state_prompt"

QUESTION_EVENT == "question_follow_up"

\* the character U+FF1F, the full-width question mark
FullwidthQuestionMark == "U+FF1F"

\* _make_timer: a threading.Timer that is not started
_make_timer(delay) == Some([due |-> now + delay, state |-> "created"])

\* timer.start()
timer_start(timer) == Some([timer[1] EXCEPT !.state = "started"])

ChatTimers == [state_timer |-> None, pending_question |-> None]

\* self._timers.setdefault(chat_id, ChatTimers())
setdefault(tm, chat_id) == IF tm[chat_id] = None THEN ChatTimers ELSE tm[chat_id][1]

_has_active_tracker(chat_id) == list_active(entries, chat_id) # <<>>

_schedule_state_check(timers) ==
    [timers EXCEPT !.state_timer = timer_start(_make_timer(_state_check_seconds))]

_clear_pending_question_keeps(timers) == timers

_clear_pending_question(timers) == [timers EXCEPT !.pending_question = None]

_set_pending_question(timers, text) ==
    [timers EXCEPT !.pending_question =
        Some([text |-> text, asked_at |-> now,
              timer |-> timer_start(_make_timer(_follow_up_seconds))])]

record_user_message(chat_id, text) ==
    /\ _timers' = [_timers EXCEPT ![chat_id] =
           Some(_schedule_state_check(_clear_pending_question(setdefault(_timers, chat_id))))]
    /\ last' = Returned("record_user_message", [chat |-> chat_id, text |-> text],
                   Some(FALSE), <<>>)

record_agent_message(chat_id, text) ==
    /\ _timers' = IF "?" \in Range(text) \/ FullwidthQuestionMark \in Range(text)
                  THEN [_timers EXCEPT ![chat_id] =
                           Some(_set_pending_question(setdefault(_timers, chat_id), text))]
                  ELSE _timers
    /\ last' = Returned("record_agent_message", [chat |-> chat_id, text |-> text],
                   None, <<>>)

\* the dimensions _handle_state_check finds pending in the state it read
missing_of(chat_id, state) ==
    (IF _state_due(chat_id, state.action, state.action_updated_at,
                   state.action_prompted_at, now).pending
     THEN <<"action">> ELSE <<>>)
    \o (IF _state_due(chat_id, state.mental, state.mental_updated_at,
                      state.mental_prompted_at, now).pending
        THEN <<"mental">> ELSE <<>>)

_state_check_locked_anyway(tm, chat_id) ==
    [tm EXCEPT ![chat_id] = Some(_schedule_state_check(setdefault(tm, chat_id)))]

\* _handle_state_check under the lock: the scheduler's timers it leaves
_state_check_locked(tm, chat_id) ==
    IF tm[chat_id] = None THEN tm
    ELSE [tm EXCEPT ![chat_id] = Some(_schedule_state_check(@[1]))]

\* _handle_state_check after it has released the lock
_state_check_unlocked(chat_id) ==
    LET req == [chat |-> chat_id]
    IN  /\ _prune_expired
        /\ IF is_resting(pdata, chat_id, now)
           THEN /\ last' = Returned("_handle_state_check", req, None, <<>>)
                /\ UNCHANGED _states
           ELSE LET state == ReadState(chat_id, Some(_has_active_tracker(chat_id)),
                                       Some(FALSE))
                    missing == missing_of(chat_id, state)
                    event == [chat_id |-> chat_id, fmt |-> STATE_EVENT,
                              missing |-> missing,
                              last_action |-> state.action,
                              last_mental |-> state.mental]
                IN  IF missing # <<>>
                    THEN /\ _states' = [_states EXCEPT ![chat_id] =
                               Some(DumpState(mark_prompt(state,
                                   "action" \in Range(missing),
                                   "mental" \in Range(missing))))]
                         /\ last' = Returned("_handle_state_check", req, None, <<event>>)
                    ELSE /\ _states' = SavedState(chat_id, state)
                         /\ last' = Returned("_handle_state_check", req, None, <<>>)

\* the callback of the state timer; tm is _timers with that timer finished
_handle_state_check(tm, chat_id) ==
    /\ _timers' = _state_check_locked(tm, chat_id)
    /\ IF tm[chat_id] = None
       THEN /\ last' = Returned("_handle_state_check", [chat |-> chat_id], None, <<>>)
            /\ UNCHANGED <<restVars, _states>>
       ELSE _state_check_unlocked(chat_id)

\* the callback of a question timer, once it holds the lock; the timer it
\* stores in question.timer is made and never started.  It returns the event it
\* goes on to hand to the event handler after it has released the lock
_handle_question_timeout(chat_id) ==
    LET req == [chat |-> chat_id]
    IN
    IF _timers[chat_id] = None \/ _timers[chat_id][1].pending_question = None
    THEN /\ last' = Returned("_handle_question_timeout", req, None, <<>>)
         /\ UNCHANGED <<restVars, _timers>>
    ELSE LET question == _timers[chat_id][1].pending_question[1]
             resume == next_resume_time(pdata, chat_id, now)
             delay == IF resume # None THEN resume[1] - now ELSE _follow_up_seconds
         IN  /\ _prune_expired
             /\ IF is_resting(pdata, chat_id, now)
                THEN /\ _timers' = [_timers EXCEPT ![chat_id][1].pending_question =
                            Some([question EXCEPT !.timer = _make_timer(delay)])]
                     /\ last' = Returned("_handle_question_timeout", req, None, <<>>)
                ELSE /\ _timers' = [_timers EXCEPT ![chat_id][1].pending_question =
                            Some([question EXCEPT
                                     !.asked_at = now,
                                     !.timer = _make_timer(_follow_up_seconds)])]
                     /\ last' = Returned("_handle_question_timeout", req,
                                    Some([chat_id |-> chat_id, fmt |-> QUESTION_EVENT,
                                          question |-> question.text]),
                                    <<>>)

\* to_beijing(dt).isoformat() of an Optional[datetime]
_iso_beijing(dt) == IF dt # None THEN Some(isoformat(dt[1])) ELSE None

describe_next_prompts(chat_id) ==
    LET resting == is_resting(pdata, chat_id, now)
        state == ReadState(chat_id, Some(_has_active_tracker(chat_id)), Some(resting))
        action == _state_due(chat_id, state.action, state.action_updated_at,
                             state.action_prompted_at, now)
        mental == _state_due(chat_id, state.mental, state.mental_updated_at,
                             state.mental_prompted_at, now)
        timers == _timers[chat_id]
        question_info ==
            IF timers # None /\ timers[1].pending_question # None
            THEN [pending |-> TRUE,
                  question |-> Some(timers[1].pending_question[1].text),
                  due_time |-> _iso_beijing(Some(timers[1].pending_question[1].asked_at
                                                 + _follow_up_seconds))]
            ELSE [pending |-> FALSE, question |-> None, due_time |-> None]
        rest_window == current_window(pdata, chat_id, now, "rest")
    IN  /\ _prune_expired
        /\ _states' = SavedState(chat_id, state)
        /\ last' = Returned("describe_next_prompts", [chat |-> chat_id],
                       Some([action |-> [pending |-> action.pending,
                                         due_time |-> _iso_beijing(Some(action.due)),
                                         value |-> state.action],
                             mental |-> [pending |-> mental.pending,
                                         due_time |-> _iso_beijing(Some(mental.due)),
                                         value |-> state.mental],
                             question |-> question_info,
                             rest |-> [active |-> rest_window # None,
                                       current_end |->
                                           IF rest_window # None
                                           THEN _iso_beijing(Some(rest_window[1].end))
                                           ELSE None,
                                       next_resume |-> _iso_beijing(
                                           next_resume_time(pdata, chat_id, now))]]),
                       <<>>)

\* core/llm/tools.py report_state_executor: the state the user reports
report_state_executor(chat_id, action, mental) ==
    LET has_tracker == _has_active_tracker(chat_id)
        resting == is_resting(pdata, chat_id, now)
        given == IF resting /\ action # None /\ action # Some("resting")
                 THEN Some("resting")
                 ELSE action
    IN  IF action = None /\ mental = None
        THEN /\ last' = Returned("report_state", [chat |-> chat_id], None, <<>>)
             /\ UNCHANGED <<restVars, _states>>
        ELSE /\ _prune_expired
             /\ IF action = Some("advancing") /\ ~has_tracker
                THEN /\ last' = Returned("report_state", [chat |-> chat_id], None, <<>>)
                     /\ UNCHANGED _states
                ELSE update_state(chat_id, given, mental, Some(has_tracker), Some(resting))

\* ------------------------------------------ environment: the scheduler
\* what the bot says: no question, a question, and one that ends with the
\* full-width mark
AgentTexts == {<<"o", "k">>, <<"h", "?">>, <<"w", FullwidthQuestionMark>>}

\* the clock bound of the scheduler, in check periods
MaxPeriods == 3

\* a rest window of chat 1 that covers the first timeout of its timers
LongRests == {[start |-> _state_check_seconds, end |-> 2 * _state_check_seconds]}

RecordUserMessage ==
    /\ record_user_message(1, <<"o", "k">>)
    /\ UNCHANGED <<now, restVars, trackerVars, wiring, loose, _states, monitor, begun, writing>>

RecordAgentMessage ==
    \E text \in AgentTexts :
        /\ record_agent_message(1, text)
        /\ UNCHANGED <<now, restVars, trackerVars, wiring, loose, _states, monitor, begun, writing>>

\* the state timer of a chat goes off and _handle_state_check runs
StateCheckFire ==
    \E c \in Chats :
        /\ _timers[c] # None
        /\ Due(_timers[c][1].state_timer)
        /\ _handle_state_check(
               [_timers EXCEPT ![c][1].state_timer = Some([@[1] EXCEPT !.state = "finished"])],
               c)
        /\ UNCHANGED <<now, trackerVars, wiring, loose, monitor, begun, writing>>

\* a timer thread of the scheduler that runs the callback op: it waits for
\* the lock (event None), or has released it (a question callback then holds
\* its event)
Begun(op, chat_id, event) == [op |-> op, chat |-> chat_id, event |-> event]

\* the question timer of a chat goes off: its thread calls
\* _handle_question_timeout, which waits for the lock
QuestionBegin ==
    \E c \in Chats :
        /\ _timers[c] # None
        /\ _timers[c][1].pending_question # None
        /\ Due(_timers[c][1].pending_question[1].timer)
        /\ _timers' = [_timers EXCEPT ![c][1].pending_question[1].timer =
                          Some([@[1] EXCEPT !.state = "finished"])]
        /\ begun' = begun (+) SetToBag({Begun("_handle_question_timeout", c, None)})
        /\ last' = Returned("Timer.run", [chat |-> c], None, <<>>)
        /\ UNCHANGED <<now, restVars, trackerVars, wiring, loose, _states, monitor,
                       writing>>

\* the callback takes the lock and runs up to the release of the lock
QuestionBody ==
    \E t \in BagToSet(begun) :
        /\ t.op = "_handle_question_timeout"
        /\ t.event = None
        /\ _handle_question_timeout(t.chat)
        /\ begun' = (begun (-) SetToBag({t}))
                        (+) (IF last'.ret # None
                             THEN SetToBag({Begun(t.op, t.chat, last'.ret)})
                             ELSE EmptyBag)
        /\ UNCHANGED <<now, trackerVars, wiring, loose, _states, monitor, writing>>

\* outside the lock the callback hands its event to the event handler
QuestionEmit ==
    \E t \in BagToSet(begun) :
        /\ t.op = "_handle_question_timeout"
        /\ t.event # None
        /\ begun' = begun (-) SetToBag({t})
        /\ last' = Returned("_event_handler", [chat |-> t.chat], None, <<t.event[1]>>)
        /\ UNCHANGED <<now, restVars, trackerVars, wiring, loose, _states, monitor,
                       _timers, writing>>

DescribeNextPrompts ==
    /\ describe_next_prompts(1)
    /\ UNCHANGED <<now, trackerVars, wiring, loose, monitor, _timers, begun, writing>>

ReportState ==
    \E action \in {None, Some("busy")}, mental \in Mentals :
        /\ report_state_executor(1, action, mental)
        /\ UNCHANGED <<now, trackerVars, wiring, loose, monitor, _timers, begun, writing>>

ProposeLong ==
    \E r \in LongRests :
        /\ add_window(1, r.start, r.end, <<>>, "approved", "rest", None, None)
        /\ UNCHANGED <<now, trackerVars, wiring, loose, _states, monitor, _timers, begun, writing>>

\* a check period passes; every delay of the scheduler is a multiple of it
TickPeriod ==
    /\ now < MaxPeriods * _state_check_seconds
    /\ \A c \in Chats :
           _timers[c] # None =>
               /\ ~Due(_timers[c][1].state_timer)
               /\ _timers[c][1].pending_question # None =>
                      ~Due(_timers[c][1].pending_question[1].timer)
    /\ begun = EmptyBag
    /\ now' = now + _state_check_seconds
    /\ last' = Returned("tick", None, None, <<>>)
    /\ UNCHANGED <<restVars, trackerVars, wiring, loose, _states, monitor, _timers, begun, writing>>

\* ------------------------------------- tracker.py: _persist, step by step
\* stop_tracking up to the release of the lock inside _persist: the entry is
\* popped and its timer cancelled under the lock, the lock is taken again for
\* the snapshot, and write_text is still to come (one such call at a time)
StopSnapshot ==
    \E c \in TrackedChats, task_hint \in Hints :
        LET entry_map == entries[c]
            target_id == stop_target(entry_map, task_hint)
            req == [chat |-> c, hint |-> task_hint]
        IN  /\ writing = EmptyBag
            /\ entry_map # <<>>
            /\ target_id # None
            /\ ~_sync_action_state_raises(c, "unknown")
            /\ _storage_path
            /\ entries' = [entries EXCEPT ![c] = Pop(entry_map, target_id[1])]
            /\ writing' = writing (+) SetToBag({[op |-> "stop_tracking",
                                                 req |-> req,
                                                 ret |-> target_id,
                                                 snapshot |-> Snapshot(entries')]})
            /\ last' = Returned("_persist", req, None, <<>>)
            /\ UNCHANGED <<now, restVars, trackerDisk, wiring, loose, _states, monitor,
                           _timers, begun>>

\* write_text, outside the lock, of a snapshot taken before; the call returns
PersistWrite ==
    \E t \in BagToSet(writing) :
        /\ trackerDisk' = t.snapshot
        /\ writing' = writing (-) SetToBag({t})
        /\ last' = Returned(t.op, t.req, t.ret, <<>>)
        /\ UNCHANGED <<now, restVars, entries, wiring, loose, _states, monitor,
                       _timers, begun>>

\* --------------------------------------------- tracker.py: clear, step by step
\* the timers of the entries clear() has popped: "popped" while armed, "held"
\* when the timer has gone off already (cancel() will find it finished)
Popped(entry_map, chat_id) ==
    SetToBag({[chat |-> chat_id,
               task |-> e.task_id,
               due |-> IF e.timer # None THEN e.timer[1].due ELSE now,
               state |-> IF Started(e) THEN "popped" ELSE "held"] :
              e \in Range(entry_map)})

\* the records of `loose` a clear() of the chat still holds
Clearing(chat_id) ==
    {t \in BagToSet(loose) : t.chat = chat_id /\ t.state \in {"popped", "held"}}

\* clear() up to the release of the lock: the chat's map is popped
ClearPop ==
    \E c \in TrackedChats :
        /\ entries[c] # <<>>
        /\ Clearing(c) = {}
        /\ entries' = [entries EXCEPT ![c] = <<>>]
        /\ loose' = loose (+) Popped(entries[c], c)
        /\ last' = Returned("clear:released", [chat |-> c], None, <<>>)
        /\ UNCHANGED <<now, restVars, trackerDisk, wiring, _states, monitor, _timers,
                       begun, writing>>

\* clear() after the lock: the popped timers are cancelled, the action state
\* is synchronised and the registry persisted
ClearFinish ==
    \E c \in TrackedChats :
        /\ Clearing(c) # {}
        /\ loose' = [t \in DOMAIN loose \ Clearing(c) |-> loose[t]]
        /\ IF _user_state THEN _prune_expired ELSE UNCHANGED restVars
        /\ IF _sync_action_state_raises(c, "unknown")
           THEN /\ trackerDisk' = trackerDisk
                /\ last' = Raised("clear", [chat |-> c], "TypeError", <<>>)
           ELSE /\ trackerDisk' = _persist(entries)
                /\ last' = Returned("clear", [chat |-> c], None, <<>>)
        /\ UNCHANGED <<now, entries, wiring, _states, monitor, _timers, begun, writing>>

\* ------------------------- session_monitor.py: the callbacks, step by step
\* a timer thread of the monitor that has read its window
Thread(op, window_id, found) == [op |-> op, window_id |-> window_id, found |-> found]

\* the start timer goes off and _handle_start reads the window
StartBegin ==
    \E w \in WindowIds :
        /\ Due(monitor._start_timers[w])
        /\ _prune_expired
        /\ monitor' = [FinishStart(monitor, w) EXCEPT !.running =
                          @ \cup {Thread("_handle_start", w, get_window(pdata, w))}]
        /\ last' = Returned("Timer.run", [window |-> w], None, <<>>)
        /\ UNCHANGED <<now, trackerVars, wiring, loose, _states, _timers, begun, writing>>

\* _handle_start goes on with the window it has read
StartBody ==
    \E t \in monitor.running :
        /\ t.op = "_handle_start"
        /\ _start_window([monitor EXCEPT !.running = @ \ {t}], t.window_id, t.found)
        /\ UNCHANGED <<now, wiring, loose, _states, _timers, begun, writing>>

\* the end timer goes off and _handle_end reads the window
EndBegin ==
    \E w \in WindowIds :
        /\ Due(monitor._end_timers[w])
        /\ _prune_expired
        /\ monitor' = [FinishEnd(monitor, w) EXCEPT !.running =
                          @ \cup {Thread("_handle_end", w, get_window(pdata, w))}]
        /\ last' = Returned("Timer.run", [window |-> w], None, <<>>)
        /\ UNCHANGED <<now, trackerVars, wiring, loose, _states, _timers, begun, writing>>

\* _handle_end goes on with the window it has read
EndBody ==
    \E t \in monitor.running :
        /\ t.op = "_handle_end"
        /\ _end_window([monitor EXCEPT !.running = @ \ {t}], t.window_id, t.found,
                       "_handle_end", [window |-> t.window_id], FALSE)
        /\ UNCHANGED <<now, wiring, loose, _states, _timers, begun, writing>>

\* /blocks cancel for a stored task window: get_window, cancel_window and
\* then the monitor's cancel(window_id, window=window)
CancelBlock ==
    \E w \in WindowIds :
        LET payload == PayloadOf(pdata, w)
            active == /\ payload.status = "approved"
                      /\ _parse_dt(payload.start) <= now
                      /\ now <= _parse_dt(payload.end)
            session == monitor._active_sessions[w]
        IN  /\ HasId(pdata, w)
            /\ payload.session_type = "task"
            /\ data' = SelectSeq(pdata, LAMBDA p : p.id # w)
            /\ restDisk' = data'
            /\ recentCancelled' = IF active
                                  THEN [precent EXCEPT ![payload.chat_id] = Some(now)]
                                  ELSE precent
            /\ IF monitor._lock = "held"
               THEN /\ last' = Raised("cancel", [window |-> w], "blocked", <<>>)
                    /\ UNCHANGED monitor
               ELSE /\ monitor' = [_cancel_locked(monitor, w) EXCEPT
                                       !._active_sessions[w] = None]
                    /\ last' = IF session # None
                               THEN Raised("cancel", [window |-> w], "TypeError", <<>>)
                               ELSE Returned("cancel", [window |-> w], None, <<>>)
            /\ UNCHANGED <<now, trackerVars, wiring, loose, _states, _timers, begun,
                           writing>>

\* ------------------------------------------------- proactivity.py: reset
\* the chat's timers are popped under the lock and cancelled after it
reset(chat_id) ==
    /\ _timers' = [_timers EXCEPT ![chat_id] = None]
    /\ last' = Returned("reset", [chat |-> chat_id], None, <<>>)

Reset ==
    /\ reset(1)
    /\ UNCHANGED <<now, restVars, trackerVars, wiring, loose, _states, monitor, begun,
                   writing>>

\* --------------------------- proactivity.py: the state check, step by step
\* the state timer of a chat goes off: its thread calls _handle_state_check,
\* which waits for the lock
StateBegin ==
    \E c \in Chats :
        /\ _timers[c] # None
        /\ Due(_timers[c][1].state_timer)
        /\ _timers' = [_timers EXCEPT ![c][1].state_timer =
                          Some([@[1] EXCEPT !.state = "finished"])]
        /\ begun' = begun (+) SetToBag({Begun("_handle_state_check", c, None)})
        /\ last' = Returned("Timer.run", [chat |-> c], None, <<>>)
        /\ UNCHANGED <<now, restVars, trackerVars, wiring, loose, _states, monitor,
                       writing>>

\* the thread that has released the lock and has the rest of the check to do
Unlocked(chat_id) == Begun("_handle_state_check", chat_id, Some([fmt |-> "unlocked"]))

\* the callback takes the lock: it returns when the chat has no timers, and
\* re-arms the state timer and releases the lock otherwise
StateLocked ==
    \E t \in BagToSet(begun) :
        /\ t.op = "_handle_state_check"
        /\ t.event = None
        /\ _timers' = _state_check_locked(_timers, t.chat)
        /\ begun' = (begun (-) SetToBag({t}))
                        (+) (IF _timers[t.chat] # None
                             THEN SetToBag({Unlocked(t.chat)})
                             ELSE EmptyBag)
        /\ last' = Returned("_handle_state_check:lock", [chat |-> t.chat], None, <<>>)
        /\ UNCHANGED <<now, restVars, trackerVars, wiring, loose, _states, monitor,
                       writing>>

\* outside the lock the callback reads the rest service and the user state
\* and hands its event to the event handler
StateUnlocked ==
    \E t \in BagToSet(begun) :
        /\ t = Unlocked(t.chat)
        /\ _state_check_unlocked(t.chat)
        /\ begun' = begun (-) SetToBag({t})
        /\ UNCHANGED <<now, trackerVars, wiring, loose, monitor, _timers, writing>>

\* ------------------------------------------------------- specifications
vars == <<now, data, restDisk, recentCancelled, entries, trackerDisk,
          _follow_up_interval, _user_state, _storage_path, loose, _states,
          monitor, _timers, begun, writing, last>>

\* how the tracker is built: with a storage file and no user state, the same
\* with no follow-up, and as bot.py builds it (user state, no storage file);
\* the rest service is attached in each
Wirings ==
    {[follow_up_seconds |-> FollowUp, user_state |-> FALSE, storage_path |-> TRUE],
     [follow_up_seconds |-> 0, user_state |-> FALSE, storage_path |-> TRUE],
     [follow_up_seconds |-> FollowUp, user_state |-> TRUE, storage_path |-> FALSE]}

InitWith(w) ==
    /\ now = 0
    /\ data = <<>>
    /\ restDisk = <<>>
    /\ recentCancelled = [c \in Chats |-> None]
    /\ entries = [c \in Chats |-> <<>>]
    /\ trackerDisk = [k \in {str(c) : c \in Chats} |-> <<>>]
    /\ _follow_up_interval = w.follow_up_seconds
    /\ _user_state = w.user_state
    /\ _storage_path = w.storage_path
    /\ loose = EmptyBag
    /\ _states = [c \in Chats |-> None]
    /\ monitor = TaskSessionMonitor
    /\ _timers = [c \in Chats |-> None]
    /\ begun = EmptyBag
    /\ writing = EmptyBag
    /\ last = Returned("init", None, None, <<>>)

Init == \E w \in Wirings : InitWith(w)

Next ==
    \/ StartTracking
    \/ TimerFire
    \/ ConsumeReply
    \/ RequestFeedback
    \/ StopTracking
    \/ Clear
    \/ DeferForRest
    \/ Restart
    \/ Propose
    \/ Tick

Spec == Init /\ [][Next]_vars

\* the interval store on its own
InitRest ==
    InitWith([follow_up_seconds |-> FollowUp, user_state |-> FALSE, storage_path |-> TRUE])

NextRest == AddRest \/ AddTask \/ List \/ Cancel \/ Delete \/ Tick

SpecRest == InitRest /\ [][NextRest]_vars

\* the due times next to the interval store
NextDue == Propose \/ Cancel \/ StateDue \/ Tick

SpecDue == InitRest /\ [][NextDue]_vars

\* the registry with its timer threads: a callback may wait for the lock while
\* the handlers of the command layer run
NextRace ==
    \/ StartTrackingAgain
    \/ RequestFeedback
    \/ DeferForRest
    \/ StopTracking
    \/ ConsumeReply
    \/ Clear
    \/ Propose
    \/ TimerBegin
    \/ LooseBegin
    \/ TimerBody
    \/ Tick

SpecRace == InitRest /\ [][NextRace]_vars

\* tracking started at any point of any rest window of the chat
NextStart == AddRest \/ StartTrackingAgain \/ TimerFire \/ Tick

SpecStart == InitRest /\ [][NextStart]_vars

\* the user state service on its own
NextState == GetState \/ UpdateState \/ Tick

SpecState == InitRest /\ [][NextState]_vars

\* the session monitor with the interval store and the registry
NextMonitor ==
    \/ AddBlock
    \/ Schedule
    \/ CancelSession
    \/ Cancel
    \/ StartTimerFire
    \/ EndTimerFire
    \/ TimerFire
    \/ Tick

SpecMonitor == InitRest /\ [][NextMonitor]_vars

\* the proactivity scheduler with the user state and the interval store
NextPro ==
    \/ RecordUserMessage
    \/ RecordAgentMessage
    \/ StateCheckFire
    \/ QuestionBegin
    \/ QuestionBody
    \/ QuestionEmit
    \/ DescribeNextPrompts
    \/ ReportState
    \/ ProposeLong
    \/ TickPeriod

SpecPro == InitRest /\ [][NextPro]_vars

\* the registry with a stop_tracking whose snapshot is written later
NextPersist ==
    \/ StartTrackingAgain
    \/ RequestFeedback
    \/ StopSnapshot
    \/ PersistWrite
    \/ TimerFire
    \/ Tick

SpecPersist == InitRest /\ [][NextPersist]_vars

\* the registry with its timer threads and a clear() that cancels the timers
\* after it has released the lock
NextClear ==
    \/ StartTrackingAgain
    \/ RequestFeedback
    \/ ClearPop
    \/ ClearFinish
    \/ TimerBegin
    \/ LooseBegin
    \/ TimerBody
    \/ Tick

SpecClear == InitRest /\ [][NextClear]_vars

\* the monitor whose start callback reads its window and goes on later, next
\* to the command that cancels the block
NextCancel ==
    \/ AddBlock
    \/ Schedule
    \/ CancelBlock
    \/ StartBegin
    \/ StartBody
    \/ EndTimerFire
    \/ TimerFire
    \/ Tick

SpecCancel == InitRest /\ [][NextCancel]_vars

\* the monitor whose callbacks read their window and go on later, next to
\* schedule and cancel; only the end logic removes a window here
NextEnd ==
    \/ AddBlock
    \/ Schedule
    \/ CancelSession
    \/ StartBegin
    \/ StartBody
    \/ EndBegin
    \/ EndBody
    \/ TimerFire
    \/ Tick

SpecEnd == InitRest /\ [][NextEnd]_vars

\* the scheduler whose state check takes the lock and goes on after it, next
\* to the user's messages and reset
NextChain ==
    \/ RecordUserMessage
    \/ Reset
    \/ StateBegin
    \/ StateLocked
    \/ StateUnlocked
    \/ ReportState
    \/ ProposeLong
    \/ TickPeriod

SpecChain == InitRest /\ [][NextChain]_vars

\* ================================================================ claims
Stored(d) == Range(d)

IsRest(p) == p.session_type = "rest"

\* closed ranges [s1, e1] and [s2, e2] share an instant
Meets(s1, e1, s2, e2) == ~(e1 < s2 \/ e2 < s1)

\* the rest windows of the chat that ListWindows shows before the call and that
\* the requested range overlaps or touches
TouchedBy(r) ==
    {p \in Stored(pdata) :
        /\ p.chat_id = r.chat
        /\ IsRest(p)
        /\ p.status \notin {"cancelled", "rejected"}
        /\ Meets(r.start, r.end, p.start.iso, p.end.iso)}

HullStart(r) == SetMin({r.start} \cup {p.start.iso : p \in TouchedBy(r)})
HullEnd(r) == -SetMin({-r.end} \cup {-p.end.iso : p \in TouchedBy(r)})

ListedRest(d, c) ==
    LET ws == list_windows(PrunedData(d, now), c, FALSE, now)
    IN  {ws[i] : i \in {k \in 1..Len(ws) : ws[k].session_type = "rest"}}

C1_MergedIntoOne(r) ==
    LET listed == ListedRest(data', r.chat)
        inPeriod == {w \in listed : Meets(HullStart(r), HullEnd(r), w.start, w.end)}
    IN  /\ Cardinality(inPeriod) = 1
        /\ \A w \in inPeriod : w.start = HullStart(r) /\ w.end = HullEnd(r)
        /\ \A p \in TouchedBy(r) : \A w \in listed : w.id # p.id

\* a step of add_window, told by the outcome it leaves
AddWindowStep(session_type) ==
    /\ last'.op = "add_window"
    /\ last'.req.session_type = session_type

\* C1: AddWindow(kind=rest) with end > start whose range overlaps or touches an
\* approved rest window of the chat leaves, in ListWindows, exactly one rest
\* window for the period, from the least start to the greatest end of the new
\* range and of every window it overlapped or touched; those windows are gone.
C1_RestMerge ==
    [][(/\ AddWindowStep("rest")
        /\ last'.req.end > last'.req.start
        /\ \E p \in TouchedBy(last'.req) : p.status = "approved")
       => C1_MergedIntoOne(last'.req)]_vars

\* an add_window call has just merged two stored rest windows into the new one
C1_Witness ==
    /\ last.op = "add_window"
    /\ Cardinality(last.took) >= 2
    /\ \E p \in Stored(data) : p.id = last.ret[1] /\ IsRest(p) /\ p.status = "approved"

\* C6 as stated: AddWindow with end <= start fails with the invalid-range error
\* and the stored windows after the call are those before it.
C6_AsStated ==
    [][(last'.op = "add_window" /\ last'.req.end <= last'.req.start)
       => (last'.raised = "ValueError" /\ Stored(data') = Stored(data))]_vars

\* C6 amended: AddWindow with end <= start fails with the invalid-range error;
\* it adds, merges and changes no window, and the only windows it removes are
\* rest windows that had already expired (end <= now), so that ListWindows
\* returns for every chat what it returned before the call.
C6_InvalidRangeOnlySweeps ==
    [][(last'.op = "add_window" /\ last'.req.end <= last'.req.start)
       => (/\ last'.raised = "ValueError"
           /\ Stored(data') \subseteq Stored(data)
           /\ \A p \in Stored(data) \ Stored(data') : IsRest(p) /\ p.end.iso <= now
           /\ \A c \in Chats, past \in BOOLEAN :
                 list_windows(data', c, past, now)
                     = list_windows(PrunedData(data, now), c, past, now))]_vars

\* a call with an invalid range has just failed on a store that holds windows
C6_Witness ==
    /\ last.op = "add_window"
    /\ last.raised = "ValueError"
    /\ data # <<>>

\* C10: two distinct non-cancelled rest windows of one chat neither overlap nor
\* touch.
C10_RestDisjoint ==
    \A i, j \in 1..Len(data) :
        (/\ i # j
         /\ data[i].chat_id = data[j].chat_id
         /\ IsRest(data[i]) /\ IsRest(data[j])
         /\ data[i].status # "cancelled" /\ data[j].status # "cancelled")
        => (data[i].end.iso < data[j].start.iso \/ data[j].end.iso < data[i].start.iso)

\* two rest windows of one chat are stored side by side
C10_Witness ==
    \E i, j \in 1..Len(data) :
        /\ i # j
        /\ data[i].chat_id = data[j].chat_id
        /\ IsRest(data[i]) /\ IsRest(data[j])

\* ------------------------------------------------------ the registry
EntryOf(es, chat_id, task_id) == es[chat_id][IndexOf(es[chat_id], task_id)]

TaskIds(entry_map) == {entry_map[i].task_id : i \in 1..Len(entry_map)}

\* the approved rest windows the chat is inside at the time of the call
RestingIn(chat_id) ==
    {p \in Stored(pdata) :
        /\ p.chat_id = chat_id
        /\ IsRest(p)
        /\ p.status = "approved"
        /\ p.start.iso <= now /\ now <= p.end.iso}

\* C2: when a reminder timer of a (chat, task) entry fires while the chat is
\* resting, no message is sent and the entry is re-armed: its next fire time
\* and its new timer are at the end of the rest window the chat is in, which
\* is the earliest end of the chat's approved rest windows still ahead.
C2_RestingFireDefers ==
    [][(last'.op = "_send_reminder" /\ is_resting(pdata, last'.req.chat, now))
       => LET entry == EntryOf(entries', last'.req.chat, last'.req.task)
          IN  /\ last'.sent = <<>>
              /\ last'.raised = ""
              /\ Started(entry)
              /\ \E p \in RestingIn(last'.req.chat) :
                    /\ entry.next_fire_at = p.end.iso
                    /\ entry.timer[1].due = p.end.iso
                    /\ \A q \in Stored(pdata) :
                          (/\ q.chat_id = p.chat_id /\ IsRest(q)
                           /\ q.status = "approved" /\ q.end.iso > now)
                          => p.end.iso <= q.end.iso]_vars

\* a timer has just gone off inside a rest window and the entry waits for its end
C2_Witness ==
    /\ last.op = "_send_reminder"
    /\ last.sent = <<>>
    /\ \E c \in Chats : \E i \in 1..Len(entries[c]) :
          /\ entries[c][i].task_id = last.req.task
          /\ entries[c][i].start_time = now
          /\ entries[c][i].next_fire_at > now
          /\ entries[c][i].rest_resume_at = Some(entries[c][i].next_fire_at)

\* C3: stop_tracking without a hint (None or the empty string) removes an
\* entry only when the chat has exactly one; with two or more it returns None
\* and every entry of the registry, with its timer, is as it was.
C3_StopWithoutHint ==
    [][(last'.op = "stop_tracking" /\ last'.req.hint \in {None, Some(<<>>)})
       => /\ (entries' # entries => Len(entries[last'.req.chat]) = 1)
          /\ (Len(entries[last'.req.chat]) >= 2
                => /\ last'.ret = None
                   /\ last'.raised = ""
                   /\ entries' = entries)]_vars

\* stop_tracking without a hint has just returned None on a chat with two entries
C3_Witness ==
    /\ last.op = "stop_tracking"
    /\ last.req.hint = None
    /\ last.ret = None
    /\ Len(entries[last.req.chat]) >= 2
    /\ \E i \in 1..Len(entries[last.req.chat]) : Started(entries[last.req.chat][i])

\* C4: start_tracking for a task the chat does not track adds exactly one
\* entry, for that task, and leaves every other entry (waiting flag, next fire
\* time, timer) as it was; a chat never holds two entries of one task, and an
\* entry leaves the registry only by stop_tracking, consume_reply, clear or a
\* restart.
C4_IndependentSchedules ==
    [][/\ (/\ last'.op = "start_tracking"
           /\ last'.req.task \notin TaskIds(entries[last'.req.chat]))
          => /\ Len(entries'[last'.req.chat]) = Len(entries[last'.req.chat]) + 1
             /\ \A i \in 1..Len(entries[last'.req.chat]) :
                   entries'[last'.req.chat][i] = entries[last'.req.chat][i]
             /\ entries'[last'.req.chat][Len(entries'[last'.req.chat])].task_id
                   = last'.req.task
             /\ \A c \in Chats \ {last'.req.chat} : entries'[c] = entries[c]
       /\ \A c \in Chats :
             /\ Cardinality(TaskIds(entries'[c])) = Len(entries'[c])
             /\ (TaskIds(entries[c]) \ TaskIds(entries'[c]) # {}
                   => last'.op \in {"stop_tracking", "consume_reply", "clear",
                                    "build_runtime"})]_vars

\* a second task has just been started beside one that was already waiting
C4_Witness ==
    /\ last.op = "start_tracking"
    /\ Len(entries[last.req.chat]) = 2
    /\ entries[last.req.chat][2].task_id = last.req.task
    /\ entries[last.req.chat][1].waiting
    /\ entries[last.req.chat][1].start_time < now

\* C5: consume_reply on a chat none of whose entries is waiting returns None
\* and leaves the registry and its storage file as they were, whatever the text.
C5_ConsumeWithoutWaiting ==
    [][(/\ last'.op = "consume_reply"
        /\ \A i \in 1..Len(entries[last'.req.chat]) :
              ~entries[last'.req.chat][i].waiting)
       => /\ last'.ret = None
          /\ last'.raised = ""
          /\ last'.sent = <<>>
          /\ entries' = entries
          /\ trackerDisk' = trackerDisk]_vars

\* a reply naming a tracked task has just been offered while nothing was waiting
C5_Witness ==
    /\ last.op = "consume_reply"
    /\ last.ret = None
    /\ entries[last.req.chat] # <<>>
    /\ \A i \in 1..Len(entries[last.req.chat]) : ~entries[last.req.chat][i].waiting
    /\ \E i \in 1..Len(entries[last.req.chat]) :
          Contains(last.req.text, entries[last.req.chat][i].task_id)

\* the reminder _send_reminder writes for an entry
StandardReminder(chat_id, entry) ==
    [chat_id |-> chat_id, fmt |-> "reminder",
     name |-> escape_md(entry.task_name), url |-> entry.task_url]

\* C7: request_feedback leaves exactly one entry for (chat, task), waiting,
\* sends the prompt and no reminder; the entry's timer is a new one, started
\* for follow_up_seconds when that is positive and absent otherwise.  When
\* the timer of such an entry goes off and the chat is not resting, the
\* message sent is the standard reminder for the task and the entry waits.
C7_RequestFeedback ==
    [][/\ last'.op = "request_feedback"
          => LET entry_map == entries'[last'.req.chat]
                 entry == EntryOf(entries', last'.req.chat, last'.req.task)
             IN  /\ Cardinality({i \in 1..Len(entry_map) :
                                   entry_map[i].task_id = last'.req.task}) = 1
                 /\ entry.waiting
                 /\ \A i \in 1..Len(last'.sent) : last'.sent[i].fmt = "prompt"
                 /\ IF _follow_up_interval > 0
                    THEN /\ Started(entry)
                         /\ entry.timer[1].due = now + _follow_up_interval
                         /\ entry.next_fire_at = now + _follow_up_interval
                    ELSE entry.timer = None
                 /\ \A i \in 1..Len(entries[last'.req.chat]) :
                       entries[last'.req.chat][i].task_id # last'.req.task
                       => entries[last'.req.chat][i] \in Range(entry_map)
       /\ (/\ last'.op = "_send_reminder"
           /\ ~is_resting(pdata, last'.req.chat, now)
           /\ EntryOf(entries, last'.req.chat, last'.req.task).context = "follow_up")
          => /\ last'.sent = <<StandardReminder(last'.req.chat,
                                  EntryOf(entries, last'.req.chat, last'.req.task))>>
             /\ EntryOf(entries', last'.req.chat, last'.req.task).waiting]_vars

\* the follow-up timer of a request_feedback entry has just gone off outside a
\* rest window and the reminder went out
C7_Witness ==
    /\ last.op = "_send_reminder"
    /\ last.sent # <<>>
    /\ EntryOf(entries, last.req.chat, last.req.task).context = "follow_up"
    /\ EntryOf(entries, last.req.chat, last.req.task).interval_seconds
          = _follow_up_interval

\* what list_active shows of an entry
Listing(es, chat_id) ==
    LET active == list_active(es, chat_id)
    IN  [i \in 1..Len(active) |->
            [task_id |-> active[i].task_id,
             waiting |-> active[i].waiting,
             next_fire_at |-> active[i].next_fire_at]]

Ranges(d, chat_id) ==
    LET ws == list_windows(PrunedData(d, now), chat_id, TRUE, now)
    IN  [i \in 1..Len(ws) |-> <<ws[i].start, ws[i].end, ws[i].session_type>>]

\* C8: a tracker with a storage file and an interval store, rebuilt from what
\* they persisted, list the same entries (task ids, waiting flags, next fire
\* times) and the same windows as the process they replace.
C8_RestartRoundTrip ==
    [][(last'.op = "build_runtime" /\ _storage_path)
       => \A c \in Chats :
             /\ Listing(entries', c) = Listing(entries, c)
             /\ Ranges(data', c) = Ranges(data, c)]_vars

\* the due time of the dimension with the threshold and the cooldown applied
DueBeforeRest(req) ==
    LET threshold == IF req.updated_at # None
                     THEN req.updated_at[1] + _state_stale_seconds
                     ELSE now
        floor == IF req.prompted_at # None
                 THEN Max(threshold, req.prompted_at[1] + _state_prompt_cooldown)
                 ELSE threshold
    IN  Max(floor, now)

ApprovedRests(chat_id) ==
    {p \in Stored(data) : p.chat_id = chat_id /\ IsRest(p) /\ p.status = "approved"}

\* C9: the due time reported for a pending dimension is never strictly inside
\* an approved rest window of the chat; when the due time with threshold and
\* cooldown applied is covered by such a window, the reported due time is the
\* window's end.
C9_DueOutsideRest ==
    (last.op = "_state_due" /\ last.ret[1].pending)
    => \A p \in ApprovedRests(last.req.chat) :
          /\ ~(p.start.iso < last.ret[1].due /\ last.ret[1].due < p.end.iso)
          /\ (p.start.iso <= DueBeforeRest(last.req) /\ DueBeforeRest(last.req) < p.end.iso)
                => last.ret[1].due = p.end.iso
\* ------------------------------------------------------------------ C11
\* the started timers of one (chat, task) pair: the one its entry holds and
\* those no entry refers to any more
LooseArmed(chat_id, task_id) ==
    LET S == {t \in BagToSet(loose) :
                t.chat = chat_id /\ t.task = task_id /\ t.state = "started"}
    IN  [t \in S |-> loose[t]]

ArmedTimers(chat_id, task_id) ==
    (IF Has(entries[chat_id], task_id)
        /\ Started(entries[chat_id][IndexOf(entries[chat_id], task_id)])
     THEN 1 ELSE 0)
    + (IF LooseArmed(chat_id, task_id) = EmptyBag THEN 0
       ELSE BagCardinality(LooseArmed(chat_id, task_id)))

\* C11: at every moment each (chat, task) pair has at most one started,
\* uncancelled timer, whatever the interleaving of the handlers with the timer
\* callbacks; in particular no handler leaves a started timer behind when it
\* re-arms an entry.
C11_OneArmedTimer ==
    \A c \in Chats : \A task \in {TaskA.id, TaskB.id} : ArmedTimers(c, task) <= 1

FeedbackPrompt(entry, user_text) ==
    [fmt |-> "feedback", name |-> entry.task_name,
     text |-> user_text, url |-> entry.task_url]

WaitingIn(entry_map) == {i \in 1..Len(entry_map) : entry_map[i].waiting}

\* C13: when exactly one entry of the chat is waiting, consume_reply consumes
\* it whatever the text: the call returns the follow-up prompt for that
\* task, the entry (with its timer) is gone from the registry and the other
\* entries stay, and the storage file, when there is one, holds the entries
\* that are left; this is so whether or not it was the chat's last entry and
\* whether or not a user state service is attached.
C13_ConsumeSingleWaiting ==
    [][(/\ last'.op = "consume_reply"
        /\ Cardinality(WaitingIn(entries[last'.req.chat])) = 1)
       => LET entry_map == entries[last'.req.chat]
              i == CHOOSE k \in WaitingIn(entry_map) : TRUE
          IN  /\ last'.raised = ""
              /\ last'.ret = Some(FeedbackPrompt(entry_map[i], last'.req.text))
              /\ entries'[last'.req.chat]
                    = SelectSeq(entry_map, LAMBDA e : e.task_id # entry_map[i].task_id)
              /\ _storage_path => trackerDisk' = Snapshot(entries')]_vars

\* ------------------------------------------------------------------ C14
\* the waiting entries a reply names: by task id verbatim, or by display name
\* whatever the case
NamedIn(entry_map, user_text) ==
    {i \in WaitingIn(entry_map) :
        \/ Contains(user_text, entry_map[i].task_id)
        \/ Contains(lower(user_text), lower(entry_map[i].task_name))}

\* C14: when two or more entries of the chat are waiting, consume_reply
\* consumes the first waiting entry the text names, and only that one; when
\* the text names none it returns None and the registry and its storage file
\* stay as they were.  No consume_reply ever removes an entry that was not
\* waiting.
C14_ConsumeAmongWaiting ==
    [][last'.op = "consume_reply"
       => LET entry_map == entries[last'.req.chat]
              named == NamedIn(entry_map, last'.req.text)
          IN  /\ Cardinality(WaitingIn(entry_map)) >= 2
                 => IF named = {}
                    THEN /\ last'.ret = None
                         /\ last'.raised = ""
                         /\ entries' = entries
                         /\ trackerDisk' = trackerDisk
                    ELSE LET i == SetMin(named)
                         IN  /\ last'.raised = ""
                             /\ last'.ret = Some(FeedbackPrompt(entry_map[i],
                                                                 last'.req.text))
                             /\ entries'[last'.req.chat] =
                                   SelectSeq(entry_map, LAMBDA e :
                                       e.task_id # entry_map[i].task_id)
              /\ \A i \in 1..Len(entry_map) :
                    entry_map[i].task_id \notin TaskIds(entries'[last'.req.chat])
                    => entry_map[i].waiting
              /\ \A c \in Chats \ {last'.req.chat} : entries'[c] = entries[c]]_vars

\* of two waiting entries the reply named both, the first was consumed and the
\* second still waits
C14_Witness ==
    /\ last.op = "consume_reply"
    /\ last.ret # None
    /\ last.req.text = <<"r", "[", "b", "2">>
    /\ Len(entries[last.req.chat]) = 1
    /\ entries[last.req.chat][1].waiting
    /\ Contains(last.req.text, entries[last.req.chat][1].task_id)

\* ------------------------------------------------------------------ C15
IdIs(entry_map, hint) ==
    {i \in 1..Len(entry_map) : lower(entry_map[i].task_id) = lower(hint)}

NameHolds(entry_map, hint) ==
    {i \in 1..Len(entry_map) : Contains(lower(entry_map[i].task_name), lower(hint))}

\* C15: stop_tracking with a hint removes the entry whose task id equals the
\* hint whatever the case, or else the first entry whose name contains the
\* hint whatever the case; exactly that entry leaves the registry, with its
\* timer, and every other entry stays as it was.  When neither matches, the
\* call returns None and the registry and its storage file are unchanged.
C15_StopWithHint ==
    [][(/\ last'.op = "stop_tracking"
        /\ last'.req.hint # None
        /\ last'.req.hint # Some(<<>>))
       => LET entry_map == entries[last'.req.chat]
              hint == last'.req.hint[1]
              by_id == IdIs(entry_map, hint)
              by_name == NameHolds(entry_map, hint)
          IN  /\ IF by_id = {} /\ by_name = {}
                 THEN /\ last'.ret = None
                      /\ last'.raised = ""
                      /\ entries' = entries
                      /\ trackerDisk' = trackerDisk
                 ELSE LET i == IF by_id # {} THEN SetMin(by_id) ELSE SetMin(by_name)
                      IN  entries'[last'.req.chat] =
                             SelectSeq(entry_map, LAMBDA e :
                                 e.task_id # entry_map[i].task_id)
              /\ \A c \in Chats \ {last'.req.chat} : entries'[c] = entries[c]]_vars

\* task A has just been stopped by its id; task B, whose name holds that id,
\* is still tracked with its timer started
C15_Witness ==
    /\ last.op = "stop_tracking"
    /\ last.req.hint = Some(TaskA.id)
    /\ last.ret = Some(TaskA.id)
    /\ Len(entries[last.req.chat]) = 1
    /\ entries[last.req.chat][1].task_id = TaskB.id
    /\ Contains(lower(entries[last.req.chat][1].task_name), lower(last.req.hint[1]))
    /\ Started(entries[last.req.chat][1])

\* ------------------------------------------------------------------ C16
\* the entry start_tracking has just made
Started16 == EntryOf(entries', last'.req.chat, last'.req.task)

\* C16 as stated: a chat that is resting gets its first fire at the rest's
\* resume time when that is earlier than now + interval, and at now + interval
\* otherwise; a chat that is not resting gets it at now + interval.
C16_AsStated ==
    [][last'.op = "start_tracking"
       => LET resume == next_resume_time(pdata, last'.req.chat, now)
              interval == Started16.interval_seconds
          IN  IF is_resting(pdata, last'.req.chat, now) /\ resume # None
              THEN IF resume[1] < now + interval
                   THEN Started16.next_fire_at = resume[1]
                   ELSE Started16.next_fire_at = now + interval
              ELSE Started16.next_fire_at = now + interval]_vars

\* C16: start_tracking on a resting chat puts the first fire at the rest's
\* resume time when now + interval is not later than that resume time, and at
\* now + interval when the rest resumes earlier; on a chat that is not
\* resting the first fire is at now + interval.  The entry's timer is started
\* and due at that time.
C16_StartWhileResting ==
    [][last'.op = "start_tracking"
       => LET resume == next_resume_time(pdata, last'.req.chat, now)
              interval == Started16.interval_seconds
          IN  /\ interval = InitialInterval
              /\ Started(Started16)
              /\ Started16.timer[1].due = Started16.next_fire_at
              /\ IF is_resting(pdata, last'.req.chat, now) /\ resume # None
                 THEN IF now + interval <= resume[1]
                      THEN Started16.next_fire_at = resume[1]
                      ELSE Started16.next_fire_at = now + interval
                 ELSE Started16.next_fire_at = now + interval]_vars

\* tracking has just been started inside a rest window that ends after the
\* interval would: the first fire waits for the end of the window
C16_Witness ==
    /\ last.op = "start_tracking"
    /\ is_resting(data, last.req.chat, now)
    /\ LET entry == EntryOf(entries, last.req.chat, last.req.task)
       IN  /\ entry.start_time = now
           /\ entry.next_fire_at > now + entry.interval_seconds
           /\ Some(entry.next_fire_at) = next_resume_time(data, last.req.chat, now)

\* ------------------------------------------------------------------ C17
\* an entry defer_for_rest is to re-arm: armed, not waiting, and due to fire
\* within the rest range
DueWithin(entry, start, end) ==
    /\ Started(entry)
    /\ ~entry.waiting
    /\ start <= entry.next_fire_at
    /\ entry.next_fire_at <= end

\* C17: defer_for_rest(chat, start, end) gives every armed, non-waiting entry
\* of the chat whose next fire time lies within [start, end] a new timer due
\* at end, with next_fire_at = end, waiting = FALSE and rest_resume_at = end,
\* whether the range has begun or starts in the future; every other entry
\* keeps its timer, its next fire time and its waiting flag.
C17_DeferForRest ==
    [][last'.op = "defer_for_rest"
       => LET entry_map == entries[last'.req.chat]
              after == entries'[last'.req.chat]
              start == last'.req.start
              end == last'.req.end
          IN  /\ Len(after) = Len(entry_map)
              /\ \A i \in 1..Len(entry_map) :
                    IF DueWithin(entry_map[i], start, end)
                    THEN /\ Started(after[i])
                         /\ after[i].timer[1].due = end
                         /\ after[i].next_fire_at = end
                         /\ ~after[i].waiting
                         /\ after[i].rest_resume_at = Some(end)
                    ELSE /\ after[i].timer = entry_map[i].timer
                         /\ after[i].next_fire_at = entry_map[i].next_fire_at
                         /\ after[i].waiting = entry_map[i].waiting]_vars

\* ------------------------------------------------------------------ C18
\* with no follow-up, an entry made by start_tracking waits only after its
\* reminder has gone out
FiredOnce(entry) == entry.context = "task" /\ entry.waiting

\* C18: with follow_up_seconds = 0, once the reminder of an entry has been
\* sent, no step other than a start_tracking or request_feedback for the same
\* (chat, task) arms a timer for the entry or sends another reminder for it.
C18_SingleShot ==
    [][_follow_up_interval = 0
       => \A c \in Chats : \A i \in 1..Len(entries[c]) :
             (/\ FiredOnce(entries[c][i])
              /\ ~(/\ last'.op \in {"start_tracking", "request_feedback"}
                   /\ last'.req.chat = c
                   /\ last'.req.task = entries[c][i].task_id))
             => /\ Has(entries'[c], entries[c][i].task_id)
                   => ~Started(EntryOf(entries', c, entries[c][i].task_id))
                /\ StandardReminder(c, entries[c][i]) \notin Range(last'.sent)]_vars

\* ------------------------------------------------------------------ C19
\* what the storage file says of one chat, and what the registry holds
Persisted(chat_id) ==
    [i \in 1..Len(trackerDisk[str(chat_id)]) |->
        LET p == trackerDisk[str(chat_id)][i]
        IN  [task_id |-> p.task_id,
             waiting |-> p.waiting,
             next_fire_at |-> fromisoformat(p.next_fire_at),
             rest_resume_at |-> IF p.rest_resume_at = None THEN None
                                ELSE Some(fromisoformat(p.rest_resume_at[1]))]]

Live(chat_id) ==
    [i \in 1..Len(entries[chat_id]) |->
        LET e == entries[chat_id][i]
        IN  [task_id |-> e.task_id,
             waiting |-> e.waiting,
             next_fire_at |-> e.next_fire_at,
             rest_resume_at |-> e.rest_resume_at]]

\* C19: once a handler of the registry has completed (a timer callback in or
\* out of a rest window, defer_for_rest, start_tracking, request_feedback,
\* stop_tracking, consume_reply, clear), the storage file lists exactly the
\* live entries with their current waiting flag, next_fire_at and
\* rest_resume_at.
C19_SnapshotCurrent ==
    _storage_path => \A c \in Chats : Persisted(c) = Live(c)

\* ------------------------------------------------------------------ C20
\* the action the normalization is to give: prior is the action before,
\* tracker and resting the two inputs
NormalAction(prior, tracker, resting) ==
    IF resting THEN "resting"
    ELSE IF prior = "resting" /\ tracker THEN "advancing"
    ELSE IF prior = "resting" THEN "unknown"
    ELSE IF prior = "advancing" /\ ~tracker THEN "unknown"
    ELSE IF prior = "unknown" /\ tracker THEN "advancing"
    ELSE prior

\* C20: get_state with a tracker flag or a resting flag returns the stored
\* state normalized: resting gives action "resting"; otherwise a prior
\* "resting" becomes "advancing" with a tracker and "unknown" without, a
\* prior "advancing" without a tracker becomes "unknown", a prior "unknown"
\* with a tracker becomes "advancing", and any other action stays; the mental
\* value is the stored one.  The state saved for the chat then has that
\* action and mental value too.
C20_Normalization ==
    [][(/\ last'.op = "get_state"
        /\ (last'.req.has_active_tracker # None \/ last'.req.is_resting # None))
       => LET prior == LoadState(_states[last'.req.chat])
              tracker == last'.req.has_active_tracker = Some(TRUE)
              resting == last'.req.is_resting = Some(TRUE)
          IN  /\ last'.ret[1].action = NormalAction(prior.action, tracker, resting)
              /\ last'.ret[1].mental = prior.mental
              /\ LoadState(_states'[last'.req.chat]).action = last'.ret[1].action
              /\ LoadState(_states'[last'.req.chat]).mental = prior.mental]_vars

\* get_state without a tracker has just turned a "resting" action that was no
\* longer true into "unknown", dated now; the mental value set earlier stays
C20_Witness ==
    /\ last.op = "get_state"
    /\ last.req.is_resting = Some(FALSE)
    /\ ~Truthy(last.req.has_active_tracker)
    /\ last.ret[1].action = "unknown"
    /\ last.ret[1].action_updated_at = Some(now)
    /\ last.ret[1].mental = "calm"
    /\ last.ret[1].mental_updated_at # None
    /\ last.ret[1].mental_updated_at[1] < now

\* ------------------------------------------------------------------ C21
\* C21: whenever the normalization of get_state changes the action, the state
\* it returns and saves has action_prompted_at = None and action_updated_at =
\* the time of the call.
C21_TransitionFresh ==
    [][(/\ last'.op = "get_state"
        /\ last'.ret[1].action # LoadState(_states[last'.req.chat]).action)
       => /\ last'.ret[1].action_prompted_at = None
          /\ last'.ret[1].action_updated_at = Some(now)
          /\ LoadState(_states'[last'.req.chat]) = last'.ret[1]]_vars


\* an entry of the registry es for the task, of the chat
Scheduled(es, chat_id, task_id) == Has(es[chat_id], task_id)

\* C22: when the end timer of a stored task window with an active session goes
\* off, _handle_end runs to completion: it returns, the session's schedule is
\* replaced by the one waiting entry with context block_follow_up, exactly one
\* end notification is sent, and the window is deleted.
C22_EndRunsToCompletion ==
    [][(/\ last'.op = "_handle_end"
        /\ monitor._active_sessions[last'.req.window] # None
        /\ HasId(pdata, last'.req.window))
       => LET session == monitor._active_sessions[last'.req.window][1]
              entry_map == entries'[session.chat_id]
          IN  /\ last'.raised = ""
              /\ Len(SelectSeq(last'.sent, LAMBDA m : m.fmt = "block_ended")) = 1
              /\ Scheduled(entries', session.chat_id, session.task.id)
              /\ LET entry == entry_map[IndexOf(entry_map, session.task.id)]
                 IN  entry.waiting /\ entry.context = "block_follow_up"
              /\ ~HasId(data', last'.req.window)]_vars

\* C23: a call of cancel(window_id) returns without a message and leaves no
\* start or end timer and no active session for the window; the schedule of a
\* session that was active is no longer in the registry.
C23_CancelStopsSession ==
    [][last'.op = "cancel"
       => /\ last'.raised = ""
          /\ last'.sent = <<>>
          /\ Unknown(monitor', last'.req.window)
          /\ monitor._active_sessions[last'.req.window] # None
             => LET session == monitor._active_sessions[last'.req.window][1]
                IN  ~Scheduled(entries', session.chat_id, session.task.id)]_vars

\* C30: every call of schedule returns and leaves the monitor's lock free, also
\* for a window that has already ended.
C30_ScheduleReleasesLock ==
    [][last'.op = "schedule"
       => last'.raised = "" /\ monitor'._lock = "free"]_vars


\* a dimension is pending: its value is unknown, or it was never updated, or
\* its update is stale
PendingAt(value, updated_at) ==
    \/ value = "unknown"
    \/ updated_at = None
    \/ now >= updated_at[1] + _state_stale_seconds

\* C24: a staleness check made while the chat is resting emits no state event
\* and leaves the stored state as it is; one made while the chat is not resting
\* emits one state event that names exactly the pending dimensions (none when
\* nothing is pending) and stamps prompted_at = now for exactly those.
C24_StateCheck ==
    [][last'.op = "_handle_state_check"
       => LET c == last'.req.chat
              before == LoadState(_states[c])
              after == LoadState(_states'[c])
              dims == (IF PendingAt(after.action, after.action_updated_at)
                       THEN <<"action">> ELSE <<>>)
                      \o (IF PendingAt(after.mental, after.mental_updated_at)
                          THEN <<"mental">> ELSE <<>>)
          IN  IF is_resting(pdata, c, now)
              THEN last'.sent = <<>> /\ _states' = _states
              ELSE /\ dims = <<>> => last'.sent = <<>>
                   /\ dims # <<>> =>
                          /\ Len(last'.sent) = 1
                          /\ last'.sent[1].fmt = STATE_EVENT
                          /\ last'.sent[1].chat_id = c
                          /\ last'.sent[1].missing = dims
                   /\ IF "action" \in Range(dims)
                      THEN after.action_prompted_at = Some(now)
                      ELSE after.action_prompted_at # Some(now)
                   /\ IF "mental" \in Range(dims)
                      THEN after.mental_prompted_at = Some(now)
                      ELSE after.mental_prompted_at = before.mental_prompted_at]_vars

\* a check found the mental dimension pending and the action not
C24_Witness ==
    /\ last.op = "_handle_state_check"
    /\ last.sent # <<>>
    /\ last.sent[1].missing = <<"mental">>
    /\ LoadState(_states[1]).mental_prompted_at = Some(now)
    /\ LoadState(_states[1]).action_prompted_at = None


\* C25: a state event names a dimension only if the dimension was not prompted
\* since its last update, or its prompt cooldown has run out: no event before
\* prompted_at + _state_prompt_cooldown.
C25_PromptCooldown ==
    [][(/\ last'.op = "_handle_state_check"
        /\ last'.sent # <<>>)
       => LET before == LoadState(_states[last'.req.chat])
              Cool(prompted_at) ==
                  prompted_at = None \/ now >= prompted_at[1] + _state_prompt_cooldown
          IN  /\ "action" \in Range(last'.sent[1].missing)
                    => Cool(before.action_prompted_at)
              /\ "mental" \in Range(last'.sent[1].missing)
                    => Cool(before.mental_prompted_at)]_vars


\* the pending question of a chat, if any
PendingQuestion(tm, chat_id) ==
    IF tm[chat_id] # None THEN tm[chat_id][1].pending_question ELSE None

\* the timer is started and goes off at the time due
ArmedFor(timer, due) == timer = Some([due |-> due, state |-> "started"])

\* C26: when the timeout of a pending question runs while the chat is not
\* resting, one question-unanswered event with the question's text is handed
\* on for emission and the chain is re-armed: the question's timer is started
\* for now + _follow_up_seconds.
C26_FollowUpChain ==
    [][(/\ last'.op = "_handle_question_timeout"
        /\ PendingQuestion(_timers, last'.req.chat) # None
        /\ ~is_resting(pdata, last'.req.chat, now))
       => LET c == last'.req.chat
              question == PendingQuestion(_timers, c)[1]
          IN  /\ last'.ret = Some([chat_id |-> c, fmt |-> QUESTION_EVENT,
                                    question |-> question.text])
              /\ PendingQuestion(_timers', c) # None
              /\ PendingQuestion(_timers', c)[1].text = question.text
              /\ ArmedFor(PendingQuestion(_timers', c)[1].timer,
                          now + _follow_up_seconds)]_vars

\* C27: when the timeout of a pending question runs while the chat is resting,
\* no event is emitted, the question stays pending and its timer is started for
\* the time the rest resumes.
C27_TimeoutDuringRest ==
    [][(/\ last'.op = "_handle_question_timeout"
        /\ PendingQuestion(_timers, last'.req.chat) # None
        /\ is_resting(pdata, last'.req.chat, now)
        /\ next_resume_time(pdata, last'.req.chat, now) # None)
       => LET c == last'.req.chat
              question == PendingQuestion(_timers, c)[1]
          IN  /\ last'.ret = None
              /\ PendingQuestion(_timers', c) # None
              /\ PendingQuestion(_timers', c)[1].text = question.text
              /\ ArmedFor(PendingQuestion(_timers', c)[1].timer,
                          next_resume_time(pdata, c, now)[1])]_vars

\* what record_agent_message and record_user_message leave as the chat's
\* pending question
Recorded ==
    LET c == last'.req.chat
    IN  /\ (/\ last'.op = "record_agent_message"
            /\ ("?" \in Range(last'.req.text)
                \/ FullwidthQuestionMark \in Range(last'.req.text)))
           => PendingQuestion(_timers', c) =
                  Some([text |-> last'.req.text, asked_at |-> now,
                        timer |-> Some([due |-> now + _follow_up_seconds,
                                        state |-> "started"])])
        /\ last'.op = "record_user_message"
           => PendingQuestion(_timers', c) = None

\* C28, as stated: an outbound message with a question mark becomes the chat's
\* one pending question, record_user_message leaves no pending question, and
\* every question-unanswered event is emitted while a question is pending, so
\* none between a user message and the next outbound question.
C28_AsStated ==
    [][/\ Recorded
       /\ \A i \in 1..Len(last'.sent) :
             last'.sent[i].fmt = QUESTION_EVENT
             => PendingQuestion(_timers, last'.sent[i].chat_id) # None]_vars

\* C28, amended: an outbound message with a question mark becomes the chat's
\* one pending question, its timer started anew; record_user_message leaves no
\* pending question; and a callback that takes the lock decides on an event
\* only for the question pending then, so a callback that takes the lock
\* between a user message and the next outbound question emits nothing.
C28_PendingQuestion ==
    [][/\ Recorded
       /\ last'.op = "_handle_question_timeout"
          => IF PendingQuestion(_timers, last'.req.chat) = None
             THEN last'.ret = None
             ELSE last'.ret # None
                  => last'.ret[1].question
                         = PendingQuestion(_timers, last'.req.chat)[1].text]_vars

\* the callback of a question timer took the lock after the user's message had
\* cleared the question
C28_Witness ==
    /\ last.op = "_handle_question_timeout"
    /\ last.ret = None
    /\ _timers[1] # None
    /\ PendingQuestion(_timers, 1) = None
    /\ _timers[1][1].state_timer # None

\* C29: describe_next_prompts reads only: the chat's stored state, the
\* scheduler's timers and the pending question are what they were.
C29_DescribeReadsOnly ==
    [][last'.op = "describe_next_prompts"
       => /\ LoadState(_states'[last'.req.chat]) = LoadState(_states[last'.req.chat])
          /\ _timers' = _timers]_vars

\* C36: with a user state service attached to the registry, a stop_tracking,
\* consume_reply or clear that removes the chat's last entry returns normally
\* (no exception leaves the call).
C36_LastRemovalCompletes ==
    [][/\ _user_state
       /\ last'.op \in {"stop_tracking", "consume_reply", "clear"}
       /\ entries[last'.req.chat] # <<>>
       /\ entries'[last'.req.chat] = <<>>
       => last'.raised = ""]_vars

\* C39: for every chat and every instant `when`, if is_resting(chat, when)
\* holds then next_resume_time(chat, when) is the end of
\* current_window(chat, when, "rest"), the instant of that end included.
C39_RestingHasResume ==
    \A c \in Chats, when \in Times :
        is_resting(pdata, c, when)
        => next_resume_time(pdata, c, when)
               = Some(current_window(pdata, c, when, "rest")[1].end)

\* C34: for a dimension with a recorded updated_at, the due time _state_due
\* computes is never earlier than updated_at + _state_stale_seconds, during a
\* rest window and after a recent cancellation included.
C34_DueNotBeforeThreshold ==
    [][last'.op = "_state_due" /\ last'.req.updated_at # None
       => last'.ret[1].due
              >= last'.req.updated_at[1] + _state_stale_seconds]_vars

\* the started timers of a pair, the entry's own and those no entry refers to
Armed(es, ls, chat_id, task_id) ==
    LET S == {t \in BagToSet(ls) :
                t.chat = chat_id /\ t.task = task_id /\ t.state = "started"}
        held == IF /\ Has(es[chat_id], task_id)
                   /\ Started(es[chat_id][IndexOf(es[chat_id], task_id)])
                THEN 1 ELSE 0
    IN  held + BagCardinality([t \in S |-> ls[t]])

\* C33: a reminder callback that takes the lock when the registry has no entry
\* for its (chat, task) pair returns silently: it sends nothing, arms no timer
\* and leaves the registry and the persisted snapshot as they were.
C33_RemovedEntrySilent ==
    [][/\ last'.op = "_send_reminder"
       /\ ~Has(entries[last'.req.chat], last'.req.task)
       => /\ last'.sent = <<>>
          /\ last'.raised = ""
          /\ entries' = entries
          /\ trackerDisk' = trackerDisk
          /\ Armed(entries', loose', last'.req.chat, last'.req.task)
                 <= Armed(entries, loose, last'.req.chat, last'.req.task)]_vars

\* a callback has run for a pair whose entry had been removed while it waited
C33_Witness ==
    /\ last.op = "_send_reminder"
    /\ ~Has(entries[last.req.chat], last.req.task)
    /\ last.sent = <<>>

\* C37: once every registry operation that ran concurrently has finished, the
\* persisted snapshot is the snapshot of the entries in memory: no snapshot
\* taken earlier is written after one taken later.
C37_LastSnapshotWins ==
    writing = EmptyBag => trackerDisk = Snapshot(entries)

\* C32: when clear(chat) releases the registry lock, every timer of the chat's
\* entries has been cancelled: none of them is still armed.
C32_ClearCancelsUnderLock ==
    [][last'.op = "clear:released"
       => \A t \in BagToSet(loose') :
             ~(t.chat = last'.req.chat /\ t.state = "popped")]_vars

\* C31: the monitor sends its messages (block started, block ended) only
\* from a thread that does not hold the monitor's lock.
C31_SendsOutsideLock ==
    [][\A i \in 1..Len(last'.sent) :
          last'.sent[i].fmt \in {"block_started", "block_ended"}
          => last'.sent[i].lock = "free"]_vars

\* C38: a start callback that goes on after the block was cancelled (window
\* removed, monitor's cancel returned) starts nothing: the window has no
\* active session and the registry no new schedule.
C38_CancelBeatsStart ==
    [][/\ last'.op = "_handle_start"
       /\ ~HasId(pdata, last'.req.window)
       /\ monitor._lock = "free"
       => /\ monitor'._active_sessions[last'.req.window] = None
          /\ entries' = entries]_vars

\* C35: the end of a task window is notified at most once: the end logic
\* deletes the window after its notification and feedback request, so no end
\* notification is sent for a window that is no longer stored; and pruning
\* removes no task window.
C35_EndOnce ==
    [][/\ \A i \in 1..Len(last'.sent) :
             last'.sent[i].fmt = "block_ended" => HasId(data, last'.req.window)
       /\ \A i \in 1..Len(data) :
             data[i].session_type = "task" => HasId(pdata, data[i].id)]_vars

\* the chat's one state timer is armed and due a check period from now
ArmedCheck(tm, chat_id) ==
    /\ tm[chat_id] # None
    /\ tm[chat_id][1].state_timer
           = Some([due |-> now + _state_check_seconds, state |-> "started"])

\* record_user_message and a state check that finds the chat's timers leave
\* the chat one armed state timer, due a check period later
Rearmed ==
    /\ last'.op = "record_user_message" => ArmedCheck(_timers', last'.req.chat)
    /\ last'.op = "_handle_state_check:lock" /\ _timers[last'.req.chat] # None
       => ArmedCheck(_timers', last'.req.chat)

\* C40, as stated: record_user_message and every state check leave the chat
\* exactly one armed state timer, due state_check_seconds later, whatever the
\* interleaving; and once reset(chat) has dropped the chat's timers no state
\* check of the chat emits an event.
C40_AsStated ==
    [][/\ Rearmed
       /\ last'.op = "_handle_state_check" /\ last'.sent # <<>>
          => _timers[last'.req.chat] # None]_vars

\* C40, amended: record_user_message and every state check leave the chat
\* exactly one armed state timer, due state_check_seconds later, whatever the
\* interleaving; and a state check that takes the lock once reset(chat) has
\* dropped the chat's timers arms nothing and goes no further, so it emits
\* nothing.
C40_Chain ==
    [][/\ Rearmed
       /\ last'.op = "_handle_state_check:lock" /\ _timers[last'.req.chat] = None
          => /\ _timers' = _timers
             /\ BagCardinality(begun') < BagCardinality(begun)]_vars

\* a state check whose timer had gone off took the lock after reset
C40_Witness ==
    /\ last.op = "_handle_state_check:lock"
    /\ _timers[last.req.chat] = None
    /\ begun = EmptyBag
====
